---- MODULE Spec2Model ----
(***************************************************************************)
(* Model of @synet/credential: the Credential unit (src/src/credential.ts) *)
(* and the Key / pure credential functions (src/src/key.ts).               *)
(*                                                                         *)
(* JavaScript values are modelled as records of one uniform shape          *)
(* [t, s, n, a] so that any two values can be compared:                    *)
(*   t = "undef" | "null" | "nan" | "bool" | "num" | "str" | "arr" | "obj" *)
(*   a string is a sequence of tokens (field a); a token is a chunk of     *)
(*   text, the base64url encoding of a string, the JSON text of a value,   *)
(*   or an ISO timestamp.  "." and ":" are tokens of their own, so that    *)
(*   split(".") and split(":") are computed, not assumed.                  *)
(*   an object is the sequence of its members in insertion order.          *)
(***************************************************************************)
EXTENDS Integers, Sequences, FiniteSets, TLC

\* ------------------------------------------------------------------ values
V(t, s, n, a) == [t |-> t, s |-> s, n |-> n, a |-> a]

Undef      == V("undef", "", 0, <<>>)
Null       == V("null", "", 0, <<>>)
NaN        == V("nan", "", 0, <<>>)
Bool(b)    == V("bool", "", IF b THEN 1 ELSE 0, <<>>)
Num(n)     == V("num", "", n, <<>>)
Str(toks)  == V("str", "", 0, toks)
Arr(elems) == V("arr", "", 0, elems)
Obj(mems)  == V("obj", "", 0, mems)
KV(k, v)   == V("kv", k, 0, <<v>>)

\* tokens of a string
Ch(c)      == V("ch", c, 0, <<>>)
Dot        == Ch(".")
Colon      == Ch(":")
B64(toks)  == V("b64", "", 0, toks)
JsonTok(v) == V("json", "", 0, <<v>>)
Iso(ms)    == V("iso", "", ms, <<>>)

Lit(c)     == Str(<<Ch(c)>>)
EmptyStr   == Str(<<>>)
Concat(x, y) == Str(x.a \o y.a)

\* JavaScript truthiness
Truthy(v) ==
  CASE v.t \in {"undef", "null", "nan"} -> FALSE
    [] v.t = "bool" -> v.n = 1
    [] v.t = "num"  -> v.n # 0
    [] v.t = "str"  -> v.a # <<>>
    [] OTHER        -> TRUE

\* a || b
OrElse(x, y) == IF Truthy(x) THEN x ELSE y

\* ----------------------------------------------------------------- objects
Keys(o) == [i \in 1..Len(o.a) |-> o.a[i].s]

HasKey(o, k) == o.t = "obj" /\ \E i \in 1..Len(o.a) : o.a[i].s = k

\* o[k]: undefined when the member is missing
Get(o, k) ==
  IF HasKey(o, k)
    THEN (o.a[CHOOSE i \in 1..Len(o.a) : o.a[i].s = k]).a[1]
    ELSE Undef

\* { proof: _, ...rest } = o
Without(o, k) == Obj(SelectSeq(o.a, LAMBDA m : m.s # k))

\* o[k] = v on a copy: replaces in place, or appends a new member
With(o, k, v) ==
  IF HasKey(o, k)
    THEN Obj([i \in 1..Len(o.a) |-> IF o.a[i].s = k THEN KV(k, v) ELSE o.a[i]])
    ELSE Obj(Append(o.a, KV(k, v)))

\* String.prototype.split(sep) for a one-character separator
RECURSIVE SplitFrom(_, _, _, _)
SplitFrom(toks, sep, i, cur) ==
  IF i > Len(toks) THEN <<cur>>
  ELSE IF toks[i] = sep THEN <<cur>> \o SplitFrom(toks, sep, i + 1, <<>>)
  ELSE SplitFrom(toks, sep, i + 1, Append(cur, toks[i]))

Split(str, sep) == SplitFrom(str.a, sep, 1, <<>>)

\* ------------------------------------------------- base64url and JSON text
\* base64urlEncode(data): one token, free of "." and ":"
base64urlEncode(str) == Str(<<B64(str.a)>>)

Garbled == Lit("?garbled?")

\* base64urlDecode(data) through Node's lenient Buffer decoding: the encoded
\* text comes back, the empty string decodes to itself, anything else decodes
\* to bytes that are no JSON text.  k = "throw" when data is not a string.
base64urlDecode(x) ==
  IF x.t # "str" THEN [k |-> "throw", v |-> Undef]
  ELSE IF Len(x.a) = 1 /\ x.a[1].t = "b64" THEN [k |-> "ret", v |-> Str(x.a[1].a)]
  ELSE IF x.a = <<>> THEN [k |-> "ret", v |-> EmptyStr]
  ELSE [k |-> "ret", v |-> Garbled]

\* a value JSON.stringify cannot serialise (a circular structure, a BigInt)
Cyclic == V("cyclic", "", 0, <<>>)

RECURSIVE HasCyclic(_)
HasCyclic(v) ==
  \/ v.t = "cyclic"
  \/ v.t \in {"arr", "obj", "kv"} /\ \E i \in 1..Len(v.a) : HasCyclic(v.a[i])

\* what JSON.stringify writes for a value: members whose value is undefined
\* are dropped, undefined array elements and NaN are written as null, member
\* order is kept
RECURSIVE Canon(_)
Canon(v) ==
  CASE v.t = "obj" ->
         LET kept == SelectSeq(v.a, LAMBDA m : m.a[1].t # "undef")
         IN  Obj([i \in 1..Len(kept) |-> KV(kept[i].s, Canon(kept[i].a[1]))])
    [] v.t = "arr" ->
         Arr([i \in 1..Len(v.a) |->
                IF v.a[i].t = "undef" THEN Null ELSE Canon(v.a[i])])
    [] v.t = "nan" -> Null
    [] OTHER -> v

\* JSON.stringify(v): a string, undefined for undefined, or a throw
JSONstringify(v) ==
  IF HasCyclic(v) THEN [k |-> "throw", v |-> Undef]
  ELSE IF v.t = "undef" THEN [k |-> "ret", v |-> Undef]
  ELSE [k |-> "ret", v |-> Str(<<JsonTok(Canon(v))>>)]

\* JSON.parse(text): the value, or a throw (SyntaxError)
JSONparse(x) ==
  IF x.t = "str" /\ Len(x.a) = 1 /\ x.a[1].t = "json"
    THEN [k |-> "ret", v |-> x.a[1].a[1]]
    ELSE [k |-> "throw", v |-> Undef]

\* new Date(s).getTime(): milliseconds, NaN for anything that is no timestamp
DateGetTime(x) ==
  IF x.t = "str" /\ Len(x.a) = 1 /\ x.a[1].t = "iso" THEN Num(x.a[1].n) ELSE NaN

MsPerSecond == 1000

\* Math.floor(ms / 1000)
FloorSeconds(x) == IF x.t = "num" THEN Num(x.n \div MsPerSecond) ELSE NaN

\* new Date(ms).toISOString()
ToISOString(ms) == Str(<<Iso(ms)>>)

\* --------------------------------------------------------------- key.ts Key
\* A Key: id, publicKeyHex, privateKeyHex ("" when undefined), type, and an
\* optional Signer (present = FALSE when undefined).
NoSigner == [present |-> FALSE, privateKeyHex |-> "", publicKeyHex |-> "", algorithm |-> ""]

\* new DirectSigner(privateKeyHex, publicKeyHex, algorithm)
DirectSigner(priv, pub, alg) ==
  [present |-> TRUE, privateKeyHex |-> priv, publicKeyHex |-> pub, algorithm |-> alg]

\* new Key(options): id defaults to createId() (the cuid-th identifier), type
\* to 'Ed25519'; privateKeyHex and signer are stored as given
KeyNew(id, pub, priv, type, signer, cuid) ==
  [id |-> IF id = "" THEN ToString(cuid) ELSE id,
   publicKeyHex |-> pub,
   privateKeyHex |-> priv,
   type |-> IF type = "" THEN "Ed25519" ELSE type,
   signer |-> signer]

\* Key.create
KeyCreate(id, pub, priv, type) ==
  [id |-> id, publicKeyHex |-> pub, privateKeyHex |-> priv, type |-> type, signer |-> NoSigner]

\* Key.createWithSigner
KeyCreateWithSigner(id, pub, type, signer) ==
  [id |-> id, publicKeyHex |-> pub, privateKeyHex |-> "", type |-> type, signer |-> signer]

\* Key.createPublic
KeyCreatePublic(id, pub, type) ==
  [id |-> id, publicKeyHex |-> pub, privateKeyHex |-> "", type |-> type, signer |-> NoSigner]

canSign(key) == key.privateKeyHex # "" \/ key.signer.present

isDirectKey(key) == key.privateKeyHex # "" /\ ~key.signer.present
isSignerKey(key) == key.signer.present /\ key.privateKeyHex = ""
isPublicKey(key) == key.privateKeyHex = "" /\ ~key.signer.present

\* variant: only the private key is dropped
toPublicKeyKeepSigner(key) == [key EXCEPT !.privateKeyHex = ""]

\* Key.toPublicKey
toPublicKey(key) == KeyCreatePublic(key.id, key.publicKeyHex, key.type)

\* `${data}:${privateKeyHex}` encoded
SignatureOver(data, priv) == base64urlEncode(Str(data.a \o <<Colon, Ch(priv)>>))

\* DirectSigner.sign(data)
DirectSignerSign(signer, data) == [k |-> "ret", v |-> SignatureOver(data, signer.privateKeyHex)]

ErrKeyCannotSign == "Key cannot sign: no private key or signer available"

\* Key.sign(data): the signature, or a throw with its message
KeySign(key, data) ==
  IF key.signer.present THEN DirectSignerSign(key.signer, data) @@ [m |-> ""]
  ELSE IF key.privateKeyHex # ""
    THEN [k |-> "ret", v |-> SignatureOver(data, key.privateKeyHex), m |-> ""]
    ELSE [k |-> "throw", v |-> Undef, m |-> ErrKeyCannotSign]

\* variant: the whole decoded signature is compared with data
KeyVerifyWhole(key, data, signature) ==
  LET dec == base64urlDecode(signature)
  IN  IF dec.k = "throw" THEN FALSE
      ELSE dec.v = data

\* Key.verify(data, signature): decodes the signature, takes what precedes the
\* first ":" and compares it with data; false when decoding throws
KeyVerify(key, data, signature) ==
  LET dec == base64urlDecode(signature)
  IN  IF dec.k = "throw" THEN FALSE
      ELSE Str(Split(dec.v, Colon)[1]) = data

\* ------------------------------------------------------ capability providers
\* The units an engine can learn from.  A "key" provider exposes the methods
\* of a key.ts Key; a "stub" provider is a foreign unit whose sign and verify
\* answer with a fixed outcome (an empty signature, a signature with a "." in
\* it, no signature, a throw).
Key1 == KeyCreate("key-1", "pub1", "priv1", "Ed25519")
Key2 == KeyCreateWithSigner("key-2", "pub2", "Secp256k1",
                            DirectSigner("priv2", "pub2", "Secp256k1"))
Key3 == toPublicKey(Key1)

ErrProvider == "provider failure"

Providers ==
  << [unitId |-> "key", kind |-> "key", key |-> Key1,
      signOut |-> [k |-> "ret", v |-> Undef, m |-> ""],
      verifyOut |-> [k |-> "ret", v |-> Undef, m |-> ""]],
     [unitId |-> "key", kind |-> "key", key |-> Key2,
      signOut |-> [k |-> "ret", v |-> Undef, m |-> ""],
      verifyOut |-> [k |-> "ret", v |-> Undef, m |-> ""]],
     [unitId |-> "key", kind |-> "key", key |-> Key3,
      signOut |-> [k |-> "ret", v |-> Undef, m |-> ""],
      verifyOut |-> [k |-> "ret", v |-> Undef, m |-> ""]],
     [unitId |-> "vault", kind |-> "stub", key |-> Key3,
      signOut |-> [k |-> "ret", v |-> EmptyStr, m |-> ""],
      verifyOut |-> [k |-> "throw", v |-> Undef, m |-> ErrProvider]],
     [unitId |-> "hsm", kind |-> "stub", key |-> Key3,
      signOut |-> [k |-> "ret", v |-> Str(<<Ch("sig"), Dot, Ch("part")>>), m |-> ""],
      verifyOut |-> [k |-> "ret", v |-> Bool(TRUE), m |-> ""]],
     [unitId |-> "void", kind |-> "stub", key |-> Key3,
      signOut |-> [k |-> "ret", v |-> Undef, m |-> ""],
      verifyOut |-> [k |-> "ret", v |-> Bool(TRUE), m |-> ""]] >>

ProviderIds == 1..Len(Providers)

\* the implementation a provider gives for a capability name, applied
SignImpl(p, data) ==
  IF Providers[p].kind = "key" THEN KeySign(Providers[p].key, data)
  ELSE Providers[p].signOut

VerifyImpl(p, data, signature) ==
  IF Providers[p].kind = "key"
    THEN [k |-> "ret", v |-> Bool(KeyVerify(Providers[p].key, data, signature)), m |-> ""]
    ELSE Providers[p].verifyOut

\* ------------------------------------------------------------ Result values
Call(cap, p, data, sig, out) == [cap |-> cap, p |-> p, data |-> data, sig |-> sig, out |-> out]

\* Result.success(value) / Result.fail(message): k = "ret"; an exception that
\* leaves a function: k = "throw".  msg is the message, piece by piece; arg is
\* the value interpolated into it; calls are the capability invocations made.
Success(value, calls) ==
  [k |-> "ret", ok |-> TRUE, msg |-> <<>>, arg |-> Undef, value |-> value, calls |-> calls]

Fail(msg, arg, calls) ==
  [k |-> "ret", ok |-> FALSE, msg |-> msg, arg |-> arg, value |-> Undef, calls |-> calls]

Throw(msg, calls) ==
  [k |-> "throw", ok |-> FALSE, msg |-> msg, arg |-> Undef, value |-> Undef, calls |-> calls]

\* ------------------------------------------------- the capability table
\* Unit's capability map: capability key -> the provider whose implementation
\* is stored.  A key is <<namespace, name>>; the names the engine uses itself
\* have the empty namespace.
NoCaps == [key \in {} |-> 0]

Plain(name) == <<"", name>>

\* Credential.can(capability)
can(caps, name) == Plain(name) \in DOMAIN caps

\* variant: an entry already present is kept
AddCapabilityIfAbsent(caps, key, p) ==
  [x \in (DOMAIN caps) \cup {key} |-> IF x \in DOMAIN caps THEN caps[x] ELSE p]

\* Unit._addCapability(name, impl): Map.set
AddCapability(caps, key, p) ==
  [x \in (DOMAIN caps) \cup {key} |-> IF x = key THEN p ELSE caps[x]]

\* Unit.execute(name, ...args): calls the stored implementation
Execute(caps, name, data, signature) ==
  IF ~can(caps, name) THEN [k |-> "throw", v |-> Undef, m |-> "Unknown command"]
  ELSE IF name = "sign" THEN SignImpl(caps[Plain(name)], data)
  ELSE IF name = "verify" THEN VerifyImpl(caps[Plain(name)], data, signature)
  ELSE [k |-> "ret", v |-> Lit(Providers[caps[Plain(name)]].key.publicKeyHex), m |-> ""]

\* ------------------------------------------------ credential.ts: issuance
VC == Lit("VerifiableCredential")

DEFAULT_CONTEXT == <<Lit("https://www.w3.org/2018/credentials/v1")>>

\* Array.isArray(type) ? type : [type]
TypeArray(type) == IF type.t = "arr" THEN type.a ELSE <<type>>

\* typeArray.find(t => t !== "VerifiableCredential") || "Generic"
AppType(typeArray) ==
  LET hits == SelectSeq(typeArray, LAMBDA t : t # VC)
  IN  OrElse(IF hits = <<>> THEN Undef ELSE hits[1], Lit("Generic"))

\* variant: the base type is prepended only when the caller did not give it
CredentialTypeOnce(typeArray) ==
  IF typeArray # <<>> /\ typeArray[1] = VC THEN Arr(typeArray) ELSE Arr(<<VC>> \o typeArray)

\* ["VerifiableCredential", ...typeArray]
CredentialType(typeArray) == Arr(<<VC>> \o typeArray)

\* generateCredentialId(type): `urn:synet:${type}:${cuid}`; createId() is the
\* cuid-th fresh identifier
\* variant: the id names the type only
generateCredentialIdOfType(type, cuid) ==
  Str(<<Ch("urn"), Colon, Ch("synet"), Colon>> \o type.a)

\* generateCredentialId(type), createId() returning the cuid-th identifier
generateCredentialId(type, cuid) ==
  Str(<<Ch("urn"), Colon, Ch("synet"), Colon>> \o type.a \o <<Colon, V("cuid", "", cuid, <<>>)>>)

ErrNotIterable == "options.context is not iterable"
ErrStringify   == "Converting circular structure to JSON"

\* createCredentialPayload(subject, type, issuerDid, options); nowMs is the
\* clock read by new Date(), cuid the identifier createId() hands out
createCredentialPayloadIn(defaults, subject, type, issuerDid, options, nowMs, cuid) ==
  LET typeArray == TypeArray(type)
      appType   == AppType(typeArray)
      extra     == Get(options, "context")
  IN  IF Truthy(extra) /\ extra.t # "arr" THEN Throw(<<ErrNotIterable>>, <<>>)
      ELSE Success(
        Obj(<< KV("@context", Arr(IF Truthy(extra) THEN defaults \o extra.a ELSE defaults)),
               KV("id", OrElse(Get(options, "vcId"), generateCredentialId(appType, cuid))),
               KV("type", CredentialType(typeArray)),
               KV("issuer", Obj(<<KV("id", issuerDid)>>)),
               KV("issuanceDate", OrElse(Get(options, "issuanceDate"), ToISOString(nowMs))),
               KV("expirationDate", Get(options, "expirationDate")),
               KV("credentialSubject", subject),
               KV("meta", Get(options, "meta")) >>), <<>>)

\* createCredentialPayload with the module's DEFAULT_CONTEXT as it is declared
createCredentialPayload(subject, type, issuerDid, options, nowMs, cuid) ==
  createCredentialPayloadIn(DEFAULT_CONTEXT, subject, type, issuerDid, options, nowMs, cuid)

\* variant: the header names the algorithm of a secp256k1 key
JwtHeaderES256K == Obj(<<KV("alg", Lit("ES256K")), KV("typ", Lit("JWT"))>>)

\* const jwtHeader = { alg: "EdDSA", typ: "JWT" }
JwtHeader == Obj(<<KV("alg", Lit("EdDSA")), KV("typ", Lit("JWT"))>>)

\* the jwtPayload object literal of createJWTProof
\* variant: nbf and exp are written in milliseconds
JwtPayloadMillis(payload, issuerDid) ==
  LET exp  == Get(payload, "expirationDate")
      base == << KV("vc", payload),
                 KV("jti", Get(payload, "id")),
                 KV("nbf", DateGetTime(Get(payload, "issuanceDate"))),
                 KV("iss", OrElse(issuerDid, Get(Get(payload, "issuer"), "id"))) >>
  IN  Obj(IF Truthy(exp) THEN Append(base, KV("exp", DateGetTime(exp))) ELSE base)

\* const jwtPayload = { vc, jti, nbf, iss, ...(payload.expirationDate && { exp }) }
JwtPayload(payload, issuerDid) ==
  LET exp  == Get(payload, "expirationDate")
      base == << KV("vc", payload),
                 KV("jti", Get(payload, "id")),
                 KV("nbf", FloorSeconds(DateGetTime(Get(payload, "issuanceDate")))),
                 KV("iss", OrElse(issuerDid, Get(Get(payload, "issuer"), "id"))) >>
  IN  Obj(IF Truthy(exp) THEN Append(base, KV("exp", FloorSeconds(DateGetTime(exp))))
                         ELSE base)

\* `${a}.${b}`
Dotted(x, y) == Str(x.a \o <<Dot>> \o y.a)

\* if (!base64Signature) return Result.fail(...)
SignatureMissing(sig) == ~Truthy(sig)

\* the try block of Credential.createJWTProof after the payload is built
CreateJWTProofTry(caps, payload, issuerDid) ==
  LET hs == JSONstringify(JwtHeader)
      ps == JSONstringify(JwtPayload(payload, issuerDid))
  IN  IF ps.k = "throw" THEN Throw(<<ErrStringify>>, <<>>)
      ELSE
        LET signingInput == Dotted(base64urlEncode(hs.v), base64urlEncode(ps.v))
            sg    == Execute(caps, "sign", signingInput, Undef)
            calls == IF can(caps, "sign")
                       THEN <<Call("sign", caps[Plain("sign")], signingInput, Undef, sg.v)>>
                       ELSE <<>>
        IN  IF sg.k = "throw" THEN Throw(<<sg.m>>, calls)
            ELSE IF SignatureMissing(sg.v) THEN Fail(<<"Failed to sign JWT proof">>, Undef, calls)
            ELSE Success(Obj(<< KV("type", Lit("JwtProof2020")),
                                KV("jwt", Dotted(signingInput, sg.v)),
                                KV("verificationMethod", issuerDid) >>), calls)

\* catch (error) { return Result.fail(`${prefix}${error.message}`) }
Catch(prefix, r) ==
  IF r.k = "throw" THEN Fail(<<prefix>> \o r.msg, Undef, r.calls) ELSE r

\* Credential.createJWTProof(payload, issuerDid)
createJWTProof(caps, payload, issuerDid) ==
  Catch("Failed to create JWT proof: ", CreateJWTProofTry(caps, payload, issuerDid))

\* variant: only sign is required
CanIssueSignOnly(caps) == can(caps, "sign")

\* the capability check that opens issueCredential
CanIssue(caps) == can(caps, "getPublicKey") /\ can(caps, "sign")

\* the try block of Credential.issueCredential
IssueCredentialTryIn(defaults, caps, subject, type, issuerDid, options, nowMs, cuid) ==
  IF ~CanIssue(caps)
    THEN Fail(<<"Cannot issue credential: missing getPublicKey or sign capability. Learn from a crypto unit.">>,
              Undef, <<>>)
  ELSE
    LET pl == createCredentialPayloadIn(defaults, subject, type, issuerDid, options, nowMs,
                                        cuid)
        proofFormat == OrElse(Get(options, "proofFormat"), Lit("jwt"))
    IN  IF pl.k = "throw" THEN pl
        ELSE IF proofFormat # Lit("jwt")
          THEN Fail(<<"Unsupported proof format: ">>, proofFormat, <<>>)
        ELSE
          LET pr == createJWTProof(caps, pl.value, issuerDid)
          IN  IF ~pr.ok THEN Fail(<<"Failed to create JWT proof: ">> \o pr.msg, pr.arg, pr.calls)
              ELSE Success(Obj(pl.value.a \o <<KV("proof", pr.value)>>), pr.calls)

IssueCredentialTry(caps, subject, type, issuerDid, options, nowMs, cuid) ==
  IssueCredentialTryIn(DEFAULT_CONTEXT, caps, subject, type, issuerDid, options, nowMs, cuid)

\* Credential.issueCredential(subject, type, issuerDid, options), the array
\* DEFAULT_CONTEXT holding `defaults` at the time of the call
issueCredentialIn(defaults, caps, subject, type, issuerDid, options, nowMs, cuid) ==
  Catch("Failed to issue credential: ",
        IssueCredentialTryIn(defaults, caps, subject, type, issuerDid, options, nowMs, cuid))

\* variant: no catch around the body
issueCredentialUncaught(caps, subject, type, issuerDid, options, nowMs, cuid) ==
  IssueCredentialTry(caps, subject, type, issuerDid, options, nowMs, cuid)

\* Credential.issueCredential(subject, type, issuerDid, options)
issueCredential(caps, subject, type, issuerDid, options, nowMs, cuid) ==
  issueCredentialIn(DEFAULT_CONTEXT, caps, subject, type, issuerDid, options, nowMs, cuid)

\* --------------------------------------------- credential.ts: verification
ErrTypeError  == "Cannot read properties of undefined"
ErrSyntax     == "Unexpected token in JSON"
ErrNotAString == "proof.jwt.split is not a function"

\* variant: a member missing from the outer credential is not compared
StringifyDiffersIfPresent(x, y) ==
  x.t # "undef" /\ JSONstringify(x).v # JSONstringify(y).v

\* JSON.stringify(credentialValue) !== JSON.stringify(value)
StringifyDiffers(x, y) == JSONstringify(x).v # JSONstringify(y).v

\* the for loop over Object.entries(expectedVc): the first key of the signed
\* vc whose value in the outer credential serialises differently, "" if none
RECURSIVE FirstMismatch(_, _, _)
FirstMismatch(expectedVc, outer, i) ==
  IF i > Len(expectedVc.a) THEN ""
  ELSE IF StringifyDiffers(Get(outer, expectedVc.a[i].s), expectedVc.a[i].a[1])
    THEN expectedVc.a[i].s
    ELSE FirstMismatch(expectedVc, outer, i + 1)

\* options?.checkExpiration !== false && jwtPayload.exp, then now > exp
IsExpired(options, exp, nowMs) ==
  /\ Get(options, "checkExpiration") # Bool(FALSE)
  /\ Truthy(exp)
  /\ exp.t = "num"
  /\ nowMs \div MsPerSecond > exp.n

\* options?.expectedIssuer && issuerDid !== options.expectedIssuer
IssuerUnexpected(options, issuerDid) ==
  /\ Truthy(Get(options, "expectedIssuer"))
  /\ issuerDid # Get(options, "expectedIssuer")

\* the capability check of verifyCredential and verifyJWTProof
CanVerify(caps) == can(caps, "getPublicKey") /\ can(caps, "verify")

\* the steps of verifyJWTProof that follow a successful signature check
AfterSignature(credential, options, nowMs, jwtPayload, calls) ==
  LET expectedVc == Get(jwtPayload, "vc")
      outer      == Without(credential, "proof")
      issuerDid  == Get(jwtPayload, "iss")
      subject    == Get(credential, "credentialSubject")
      holder     == Get(subject, "holder")
      bad        == IF expectedVc.t = "obj" THEN FirstMismatch(expectedVc, outer, 1) ELSE ""
  IN  IF ~Truthy(expectedVc) THEN Fail(<<"Missing vc claim in JWT payload">>, Undef, calls)
      ELSE IF bad # ""
        THEN Fail(<<"JWT payload field \"", bad, "\" does not match credential data">>,
                  Undef, calls)
      ELSE IF \/ ~Truthy(Get(outer, "id"))
              \/ ~Truthy(Get(outer, "issuer"))
              \/ ~Truthy(Get(outer, "issuanceDate"))
        THEN Fail(<<"Missing required credential fields">>, Undef, calls)
      ELSE IF IsExpired(options, Get(jwtPayload, "exp"), nowMs)
        THEN Fail(<<"Credential has expired">>, Undef, calls)
      ELSE IF IssuerUnexpected(options, issuerDid)
        THEN Fail(<<"Unexpected issuer: ">>, issuerDid, calls)
      ELSE IF subject.t \in {"undef", "null"} \/ holder.t \in {"undef", "null"}
        THEN Throw(<<ErrTypeError>>, calls)
      ELSE Success(Obj(<< KV("verified", Bool(TRUE)),
                          KV("issuer", issuerDid),
                          KV("subject", Get(holder, "id")),
                          KV("issuanceDate", Get(credential, "issuanceDate")),
                          KV("expirationDate", Get(credential, "expirationDate")) >>), calls)

\* variant: the signature is checked against the payload segment
SigningInputPayloadOnly(jwtParts) == Str(jwtParts[2])

\* const [headerB64, payloadB64, signatureB64] = jwtParts;
\* const signingInput = `${headerB64}.${payloadB64}`
SigningInput(jwtParts) == Dotted(Str(jwtParts[1]), Str(jwtParts[2]))

\* the inner try block of verifyJWTProof
VerifyInnerTry(caps, credential, options, nowMs, jwtParts) ==
  LET signingInput == SigningInput(jwtParts)
      dec == base64urlDecode(Str(jwtParts[2]))
      prs == JSONparse(dec.v)
  IN  IF prs.k = "throw" THEN Throw(<<ErrSyntax>>, <<>>)
      ELSE IF prs.v.t \in {"undef", "null"} THEN Throw(<<ErrTypeError>>, <<>>)
      ELSE IF ~CanVerify(caps)
        THEN Fail(<<"Missing getPublicKey or verify capability">>, Undef, <<>>)
      ELSE
        LET vr    == Execute(caps, "verify", signingInput, Str(jwtParts[3]))
            calls == <<Call("verify", caps[Plain("verify")], signingInput,
                            Str(jwtParts[3]), vr.v)>>
        IN  IF vr.k = "throw" THEN Throw(<<vr.m>>, calls)
            ELSE IF ~Truthy(vr.v) THEN Fail(<<"Invalid signature">>, Undef, calls)
            ELSE AfterSignature(credential, options, nowMs, prs.v, calls)

\* jwtParts.length !== 3
WrongSegmentCount(jwtParts) == Len(jwtParts) # 3

\* the outer try block of verifyJWTProof
VerifyJWTProofTry(caps, credential, options, nowMs) ==
  LET jwt == Get(Get(credential, "proof"), "jwt")
  IN  IF ~Truthy(jwt) THEN Fail(<<"No JWT found in proof">>, Undef, <<>>)
      ELSE IF jwt.t # "str" THEN Throw(<<ErrNotAString>>, <<>>)
      ELSE
        LET jwtParts == Split(jwt, Dot)
        IN  IF WrongSegmentCount(jwtParts) THEN Fail(<<"Invalid JWT format">>, Undef, <<>>)
            ELSE Catch("Failed to parse JWT payload: ",
                       VerifyInnerTry(caps, credential, options, nowMs, jwtParts))

\* Credential.verifyJWTProof(credential, options)
verifyJWTProof(caps, credential, options, nowMs) ==
  Catch("Failed to verify JWT proof: ", VerifyJWTProofTry(caps, credential, options, nowMs))

\* proof.type === "JwtProof2020" && proof.jwt
IsJwtProof(proof) == Get(proof, "type") = Lit("JwtProof2020") /\ Truthy(Get(proof, "jwt"))

\* the try block of Credential.verifyCredential
VerifyCredentialTry(caps, credential, options, nowMs) ==
  IF ~CanVerify(caps) THEN Fail(<<"Missing getPublicKey or verify capability">>, Undef, <<>>)
  ELSE IF ~Truthy(credential) \/ ~Truthy(Get(credential, "proof"))
    THEN Fail(<<"Invalid credential: missing proof">>, Undef, <<>>)
  ELSE IF IsJwtProof(Get(credential, "proof"))
    THEN verifyJWTProof(caps, credential, options, nowMs)
  ELSE Fail(<<"Unsupported proof type: ">>, Get(Get(credential, "proof"), "type"), <<>>)

\* Credential.verifyCredential(credential, options)
verifyCredential(caps, credential, options, nowMs) ==
  Catch("Failed to verify credential: ", VerifyCredentialTry(caps, credential, options, nowMs))

\* ------------------------------------------------- structural validation
\* what an async function that is no Result returns
Resolved(value) == Success(value, <<>>)

Invalid(reason) == Resolved(Obj(<<KV("valid", Bool(FALSE)), KV("reason", Lit(reason))>>))

\* typeof v === "object"
TypeofObject(v) == v.t \in {"obj", "arr", "null"}

\* variant: the type has to be an array, of whatever names
validateStructureAnyType(credential) ==
  IF ~Truthy(credential) \/ ~TypeofObject(credential)
    THEN Invalid("Invalid credential structure")
  ELSE IF ~Truthy(Get(credential, "@context")) \/ Get(credential, "@context").t # "arr"
    THEN Invalid("Missing or invalid @context")
  ELSE IF ~Truthy(Get(credential, "type")) \/ Get(credential, "type").t # "arr"
    THEN Invalid("Missing or invalid type")
  ELSE IF ~Truthy(Get(credential, "issuer")) THEN Invalid("Missing issuer")
  ELSE IF ~Truthy(Get(credential, "issuanceDate")) THEN Invalid("Missing issuanceDate")
  ELSE IF \/ ~Truthy(Get(credential, "credentialSubject"))
          \/ ~Truthy(Get(Get(credential, "credentialSubject"), "holder"))
    THEN Invalid("Missing or invalid credentialSubject")
  ELSE IF ~Truthy(Get(credential, "proof")) THEN Invalid("Missing proof")
  ELSE Resolved(Obj(<<KV("valid", Bool(TRUE))>>))

\* Credential.validateStructure(credential)
validateStructure(credential) ==
  IF ~Truthy(credential) \/ ~TypeofObject(credential)
    THEN Invalid("Invalid credential structure")
  ELSE IF ~Truthy(Get(credential, "@context")) \/ Get(credential, "@context").t # "arr"
    THEN Invalid("Missing or invalid @context")
  ELSE IF \/ ~Truthy(Get(credential, "type"))
          \/ Get(credential, "type").t # "arr"
          \/ ~\E i \in 1..Len(Get(credential, "type").a) : Get(credential, "type").a[i] = VC
    THEN Invalid("Missing or invalid type")
  ELSE IF ~Truthy(Get(credential, "issuer")) THEN Invalid("Missing issuer")
  ELSE IF ~Truthy(Get(credential, "issuanceDate")) THEN Invalid("Missing issuanceDate")
  ELSE IF \/ ~Truthy(Get(credential, "credentialSubject"))
          \/ ~Truthy(Get(Get(credential, "credentialSubject"), "holder"))
    THEN Invalid("Missing or invalid credentialSubject")
  ELSE IF ~Truthy(Get(credential, "proof")) THEN Invalid("Missing proof")
  ELSE Resolved(Obj(<<KV("valid", Bool(TRUE))>>))

\* ------------------------------------------------------------- teaching
\* Credential.teach(): the unit id and the capability names of the contract
TeachNames == <<"issueCredential", "verifyCredential", "validateStructure">>

teach == [unitId |-> "credential", capabilities |-> TeachNames]

\* args[i - 1] of a rest parameter
Arg(argv, i) == IF i <= Len(argv) THEN argv[i] ELSE Undef

\* variant: the taught operations take their first three arguments
TaughtFirstThree(caps, name, argv, nowMs, cuid) ==
  CASE name = "issueCredential" ->
         issueCredential(caps, Arg(argv, 1), Arg(argv, 2), Arg(argv, 3), Undef, nowMs, cuid)
    [] name = "verifyCredential" -> verifyCredential(caps, Arg(argv, 1), Arg(argv, 2), nowMs)
    [] OTHER -> validateStructure(Arg(argv, 1))

\* contract.capabilities[name](...argv), the closures of teach() calling the
\* methods of the engine they were taken from
Taught(caps, name, argv, nowMs, cuid) ==
  CASE name = "issueCredential" ->
         issueCredential(caps, Arg(argv, 1), Arg(argv, 2), Arg(argv, 3), Arg(argv, 4),
                         nowMs, cuid)
    [] name = "verifyCredential" -> verifyCredential(caps, Arg(argv, 1), Arg(argv, 2), nowMs)
    [] OTHER -> validateStructure(Arg(argv, 1))

\* ------------------------------------- key.ts: the pure credential functions
\* key.ts declares createCredentialPayload and generateCredentialId a second
\* time, statement for statement as the Credential methods above; the
\* operators above stand for both.
ErrNotAKey == "key.canSign is not a function"

\* the try block of createJWTProof(payload, key, issuerDid)
KeyCreateJWTProofTry(payload, key, issuerDid) ==
  IF ~canSign(key) THEN Fail(<<ErrKeyCannotSign>>, Undef, <<>>)
  ELSE
    LET hs == JSONstringify(JwtHeader)
        ps == JSONstringify(JwtPayload(payload, issuerDid))
    IN  IF ps.k = "throw" THEN Throw(<<ErrStringify>>, <<>>)
        ELSE
          LET signingInput == Dotted(base64urlEncode(hs.v), base64urlEncode(ps.v))
              sg == KeySign(key, signingInput)
          IN  IF sg.k = "throw" THEN Throw(<<sg.m>>, <<>>)
              ELSE Success(Obj(<< KV("type", Lit("JwtProof2020")),
                                  KV("jwt", Dotted(signingInput, sg.v)),
                                  KV("verificationMethod", issuerDid) >>), <<>>)

\* createJWTProof(payload, key, issuerDid) of key.ts
keyCreateJWTProof(payload, key, issuerDid) ==
  Catch("Failed to create JWT proof: ", KeyCreateJWTProofTry(payload, key, issuerDid))

\* createJWTProof(payload, issuerDid) as issueVC calls it: the issuer string
\* stands where the key is expected, and a string has no canSign method
keyCreateJWTProofNoKey(payload, issuerDid) ==
  Catch("Failed to create JWT proof: ", Throw(<<ErrNotAKey>>, <<>>))

\* the try block of issueVC(subject, type, issuerDid, options)
IssueVCTry(subject, type, issuerDid, options, nowMs, cuid) ==
  LET pl == createCredentialPayload(subject, type, issuerDid, options, nowMs, cuid)
      proofFormat == OrElse(Get(options, "proofFormat"), Lit("jwt"))
  IN  IF pl.k = "throw" THEN pl
      ELSE IF proofFormat # Lit("jwt")
        THEN Fail(<<"Unsupported proof format: ">>, proofFormat, <<>>)
      ELSE
        LET pr == keyCreateJWTProofNoKey(pl.value, issuerDid)
        IN  IF ~pr.ok THEN Fail(<<"Failed to create proof: ">> \o pr.msg, pr.arg, pr.calls)
            ELSE Success(Obj(pl.value.a \o <<KV("proof", pr.value)>>), pr.calls)

\* issueVC(subject, type, issuerDid, options)
issueVC(subject, type, issuerDid, options, nowMs, cuid) ==
  Catch("Failed to issue credential: ",
        IssueVCTry(subject, type, issuerDid, options, nowMs, cuid))

\* the inner try block of verifyJWTProof(credential, verificationKey, options)
KeyVerifyInnerTry(credential, verificationKey, options, nowMs, jwtParts) ==
  LET signingInput == Dotted(Str(jwtParts[1]), Str(jwtParts[2]))
      dec == base64urlDecode(Str(jwtParts[2]))
      prs == JSONparse(dec.v)
      subject == Get(credential, "credentialSubject")
      holder  == Get(subject, "holder")
  IN  IF prs.k = "throw" THEN Throw(<<ErrSyntax>>, <<>>)
      ELSE IF prs.v.t \in {"undef", "null"} THEN Throw(<<ErrTypeError>>, <<>>)
      ELSE IF ~KeyVerify(verificationKey, signingInput, Str(jwtParts[3]))
        THEN Fail(<<"Invalid signature">>, Undef, <<>>)
      ELSE IF IsExpired(options, Get(prs.v, "exp"), nowMs)
        THEN Fail(<<"Credential has expired">>, Undef, <<>>)
      ELSE IF IssuerUnexpected(options, Get(prs.v, "iss"))
        THEN Fail(<<"Unexpected issuer: ">>, Get(prs.v, "iss"), <<>>)
      ELSE IF subject.t \in {"undef", "null"} \/ holder.t \in {"undef", "null"}
        THEN Throw(<<ErrTypeError>>, <<>>)
      ELSE Success(Obj(<< KV("verified", Bool(TRUE)),
                          KV("issuer", Get(prs.v, "iss")),
                          KV("subject", Get(holder, "id")),
                          KV("issuanceDate", Get(credential, "issuanceDate")),
                          KV("expirationDate", Get(credential, "expirationDate")) >>), <<>>)

\* the outer try block of verifyJWTProof of key.ts
KeyVerifyJWTProofTry(credential, verificationKey, options, nowMs) ==
  LET jwt == Get(Get(credential, "proof"), "jwt")
  IN  IF ~Truthy(jwt) THEN Fail(<<"No JWT found in proof">>, Undef, <<>>)
      ELSE IF jwt.t # "str" THEN Throw(<<ErrNotAString>>, <<>>)
      ELSE
        LET jwtParts == Split(jwt, Dot)
        IN  IF WrongSegmentCount(jwtParts) THEN Fail(<<"Invalid JWT format">>, Undef, <<>>)
            ELSE Catch("Failed to parse JWT payload: ",
                       KeyVerifyInnerTry(credential, verificationKey, options, nowMs, jwtParts))

\* verifyJWTProof(credential, verificationKey, options) of key.ts
keyVerifyJWTProof(credential, verificationKey, options, nowMs) ==
  Catch("Failed to verify JWT proof: ",
        KeyVerifyJWTProofTry(credential, verificationKey, options, nowMs))

\* the try block of verifyVC(verificationKey, credential, options)
VerifyVCTry(verificationKey, credential, options, nowMs) ==
  LET proof == Get(credential, "proof")
  IN  IF proof.t \in {"undef", "null"} THEN Throw(<<ErrTypeError>>, <<>>)
      ELSE IF IsJwtProof(proof)
        THEN keyVerifyJWTProof(credential, verificationKey, options, nowMs)
      ELSE Fail(<<"Unsupported proof type: ">>, Get(proof, "type"), <<>>)

\* verifyVC(verificationKey, credential, options)
verifyVC(verificationKey, credential, options, nowMs) ==
  Catch("Failed to verify credential: ",
        VerifyVCTry(verificationKey, credential, options, nowMs))

\* ------------------------------------------------- credential.ts: learning
\* A TeachingContract: the unit's id, the provider whose methods its
\* capabilities are, and the capability names in Object.entries order.
Contract(unitId, p, names) == [unitId |-> unitId, p |-> p, names |-> names]

Recognized == {"getPublicKey", "sign", "verify"}

\* Credential.log(msg): pushes the message; forwards it to a learned
\* "logger.log" capability
LogLearned(st, cap, unitId) ==
  [st EXCEPT !.log = Append(@, [cap |-> cap, unitId |-> unitId]),
             !.calls = IF <<"logger", "log">> \in DOMAIN st.caps
                         THEN Append(@, Call("logger.log", st.caps[<<"logger", "log">>],
                                             Undef, Undef, Undef))
                         ELSE @]

\* the body of the inner for loop of learn, for the i-th entry of a contract
LearnEntry(st, contract, i) ==
  IF contract.names[i] \in Recognized
    THEN LogLearned([st EXCEPT !.caps = AddCapability(@, Plain(contract.names[i]), contract.p)],
                    contract.names[i], contract.unitId)
    ELSE st

RECURSIVE LearnEntries(_, _, _)
LearnEntries(st, contract, i) ==
  IF i > Len(contract.names) THEN st
  ELSE LearnEntries(LearnEntry(st, contract, i), contract, i + 1)

RECURSIVE LearnContracts(_, _, _)
LearnContracts(st, contracts, j) ==
  IF j > Len(contracts) THEN st
  ELSE LearnContracts(LearnEntries(st, contracts[j], 1), contracts, j + 1)

\* Unit.learn(contracts) of @synet/unit: every capability of every contract is
\* stored under its namespaced key "unitId.name"
RECURSIVE SuperLearn(_, _, _, _)
SuperLearn(caps, contracts, j, i) ==
  IF j > Len(contracts) THEN caps
  ELSE IF i > Len(contracts[j].names) THEN SuperLearn(caps, contracts, j + 1, 1)
  ELSE SuperLearn(AddCapability(caps, <<contracts[j].unitId, contracts[j].names[i]>>,
                                contracts[j].p),
                  contracts, j, i + 1)

\* variant: each learn call starts from an empty table
learnAfresh(caps, log, contracts) ==
  LET st == LearnContracts([caps |-> NoCaps, log |-> log, calls |-> <<>>], contracts, 1)
  IN  [st EXCEPT !.caps = SuperLearn(@, contracts, 1, 1)]

\* Credential.learn(contracts)
learn(caps, log, contracts) ==
  LET st == LearnContracts([caps |-> caps, log |-> log, calls |-> <<>>], contracts, 1)
  IN  [st EXCEPT !.caps = SuperLearn(@, contracts, 1, 1)]

\* ------------------------------------------------------------------ bounds
MaxSec    == 2    \* the clock runs over seconds 0..MaxSec
MaxLearn  == 2    \* learn calls per engine
MaxIssue  == 1    \* issueCredential calls per run
MaxTamper == 1    \* edits a holder makes to an issued credential
MaxKeys   == 1    \* keys constructed without an id of their own

\* instants in milliseconds: the first and the last millisecond of each second
Times == {sec * MsPerSecond + off : sec \in 0..MaxSec, off \in {0, MsPerSecond - 1}}

\* ------------------------------------------------------------------ inputs
Holder(id) == Obj(<<KV("id", Lit(id))>>)

SubjAlice    == Obj(<<KV("holder", Holder("did:x:alice"))>>)
SubjBob      == Obj(<<KV("holder", Holder("did:x:bob")), KV("degree", Lit("CS"))>>)
SubjNoHolder == Obj(<<KV("name", Lit("nobody"))>>)
SubjCyclic   == Obj(<<KV("holder", Holder("did:x:alice")), KV("self", Cyclic)>>)

TypeOne  == Lit("IdentityCredential")
TypeList == Arr(<<Lit("AlumniCredential"), Lit("EducationCredential")>>)
TypeBase == Arr(<<VC, Lit("IdentityCredential")>>)

IssuerA == Lit("did:x:issuer")

Opt(k, v) == Obj(<<KV(k, v)>>)

Input(subject, type, issuerDid, options) ==
  [subject |-> subject, type |-> type, issuerDid |-> issuerDid, options |-> options]

OptMeta == Opt("meta", Obj(<<KV("version", Lit("1.0.0"))>>))

VerifyOptions ==
  {Undef,
   Opt("checkExpiration", Bool(FALSE)),
   Opt("expectedIssuer", IssuerA),
   Opt("expectedIssuer", Lit("did:x:other"))}

KeyNames == <<"getPublicKey", "sign", "verify", "toJSON">>

\* what key.teach() hands out for provider p
Teach(p) == Contract(Providers[p].unitId, p, KeyNames)

\* the fields a holder edits, and what an edit writes
TopFields == {"@context", "id", "type", "issuer", "issuanceDate", "expirationDate",
              "credentialSubject", "meta", "evidence"}

Forged(field) ==
  CASE field = "@context" -> Arr(<<Lit("https://evil.example/ctx")>>)
    [] field = "id" -> Lit("urn:forged")
    [] field = "type" -> Arr(<<VC, Lit("AdminCredential")>>)
    [] field = "issuer" -> Obj(<<KV("id", Lit("did:x:mallory"))>>)
    [] field = "issuanceDate" -> Lit("1999-01-01")
    [] field = "expirationDate" -> Lit("2999-01-01")
    [] field = "credentialSubject" -> Obj(<<KV("holder", Holder("did:x:mallory"))>>)
    [] field = "meta" -> Obj(<<KV("version", Lit("6.6.6"))>>)
    [] OTHER -> Lit("forged")

ProofEdits == {"twoSegments", "fourSegments", "emptyJwt", "noJwt", "numberJwt",
               "wrongType", "noProof", "garbagePayload", "forgedSignature"}

Segment(jwt, i) == IF i <= Len(Split(jwt, Dot)) THEN Str(Split(jwt, Dot)[i]) ELSE EmptyStr

EditedProof(proof, how) ==
  LET jwt == Get(proof, "jwt")
  IN  CASE how = "twoSegments" -> With(proof, "jwt", Dotted(Segment(jwt, 1), Segment(jwt, 2)))
        [] how = "fourSegments" -> With(proof, "jwt", Dotted(jwt, Lit("extra")))
        [] how = "emptyJwt" -> With(proof, "jwt", EmptyStr)
        [] how = "noJwt" -> Without(proof, "jwt")
        [] how = "numberJwt" -> With(proof, "jwt", Num(7))
        [] how = "wrongType" -> With(proof, "type", Lit("Ed25519Signature2020"))
        [] how = "garbagePayload" ->
             With(proof, "jwt", Dotted(Dotted(Segment(jwt, 1), Lit("garbage")), Segment(jwt, 3)))
        [] how = "forgedSignature" ->
             With(proof, "jwt", Dotted(Dotted(Segment(jwt, 1), Segment(jwt, 2)), Lit("forged")))
        [] how = "garbageHeader" ->
             With(proof, "jwt", Dotted(Dotted(Lit("garbage"), Segment(jwt, 2)), Segment(jwt, 3)))
        [] how = "resignedHeader" ->
             \* the issuer signs the new signing input with the key itself
             LET data == Dotted(Lit("garbage"), Segment(jwt, 2))
             IN  With(proof, "jwt", Dotted(data, KeySign(Key1, data).v))
        [] OTHER -> Undef

\* ------------------------------------------------------------------- state
VARIABLES
  caps,        \* the engine's capability table
  log,         \* Credential._log
  audit,       \* Credential._audit
  learned,     \* history: the contract lists passed to learn, in call order
  now,         \* the clock, in milliseconds
  nextId,      \* the next identifier createId() hands out
  cred,        \* the credential the caller holds (undefined before issuance)
  orig,        \* history: that credential as it was issued
  args,        \* history: the arguments of the call that issued it
  issuedCaps,  \* history: the capability table during that call
  issues,      \* issueCredential calls made
  edits,       \* edits made to cred since it was issued
  bench,       \* key.ts in use: the key last asked to sign, the data, the
               \* signature, the key that verified and the data it was
               \* given; the key that issued cred
  ledger,      \* history: the id of each credential an issuance that keeps
               \* record returned, and whether the caller supplied it
  signed,      \* history: the sign call made for the credential last issued
  heap,        \* the objects that outlive a call: the module's DEFAULT_CONTEXT
               \* array, the subject object a caller keeps, and the credentials
               \* returned, each with the objects it shares
  flight,      \* the call that is suspended awaiting its delegate, with what
               \* it read before it was suspended
  consumer,    \* the capability names a consumer copied from teach(), and
               \* the number of learn calls the engine had made by then
  res          \* the last operation, its options or arguments, its outcome

vars == <<caps, log, audit, learned, now, nextId, cred, orig, args, issuedCaps,
          issues, edits, bench, ledger, signed, heap, flight, consumer, res>>

NoArgs == Input(Undef, Undef, Undef, Undef)

Done(op, opts, out) == [op |-> op, opts |-> opts, out |-> out]

Quiet == Success(Undef, <<>>)

NoKey == KeyCreatePublic("", "", "")

NoBench ==
  [key |-> NoKey, data |-> Undef, sig |-> Undef, verifier |-> NoKey, checked |-> Undef,
   issuer |-> NoKey]

NoCall == Call("", 0, Undef, Undef, Undef)

\* a call in flight: its arguments, and the capability table, the clock and
\* the identifier it read in the synchronous run up to its await
Flight(op, inp, credential, table, nowMs, cuid) ==
  [op |-> op, inp |-> inp, credential |-> credential, caps |-> table, now |-> nowMs,
   cuid |-> cuid]

NoFlight == Flight("", NoArgs, Undef, NoCaps, 0, 0)

\* Credential.create()
Init ==
  /\ caps = NoCaps
  /\ log = <<>>
  /\ audit = <<>>
  /\ learned = <<>>
  /\ now = 0
  /\ nextId = 1
  /\ cred = Undef
  /\ orig = Undef
  /\ args = NoArgs
  /\ issuedCaps = NoCaps
  /\ issues = 0
  /\ edits = 0
  /\ bench = NoBench
  /\ ledger = <<>>
  /\ signed = NoCall
  /\ heap = [defaults |-> DEFAULT_CONTEXT, subject |-> SubjBob, cards |-> <<>>]
  /\ flight = NoFlight
  /\ consumer = [names |-> <<>>, since |-> 0]
  /\ res = Done("create", Undef, Quiet)

\* time passes, to a later instant of the given set
TickIn(times) ==
  /\ \E t \in times : t > now /\ now' = t
  /\ res' = Done("tick", Undef, Quiet)
  /\ UNCHANGED <<caps, log, audit, learned, nextId, cred, orig, args, issuedCaps,
                 issues, edits, bench, ledger, signed, heap, flight, consumer>>

\* engine.learn(contracts), for a contract list of the menu
LearnFrom(menu, most) ==
  /\ Len(learned) < most
  /\ \E contracts \in menu :
       LET st == learn(caps, log, contracts)
       IN  /\ caps' = st.caps
           /\ log' = st.log
           /\ learned' = Append(learned, contracts)
           /\ res' = Done("learn", Undef, Success(Undef, st.calls))
  /\ UNCHANGED <<audit, now, nextId, cred, orig, args, issuedCaps, issues, edits, bench,
                 ledger, signed, heap, flight, consumer>>

\* whether an issueCredential call reaches createId()
CallsCreateId(c, options) ==
  /\ CanIssue(c)
  /\ ~(Truthy(Get(options, "context")) /\ Get(options, "context").t # "arr")
  /\ ~Truthy(Get(options, "vcId"))

\* what a call of issueCredential(subject, type, issuerDid, options) that
\* returns r leaves; with `keep` the returned id goes on record
IssueEffect(op, said, inp, r, keep) ==
  /\ res' = Done(op, said, r)
  /\ nextId' = IF CallsCreateId(caps, inp.options) THEN nextId + 1 ELSE nextId
  /\ args' = inp
  /\ issuedCaps' = caps
  /\ IF r.k = "ret" /\ r.ok
       THEN cred' = r.value /\ orig' = r.value /\ edits' = 0
       ELSE UNCHANGED <<cred, orig, edits>>
  /\ ledger' = IF keep /\ r.k = "ret" /\ r.ok
                 THEN Append(ledger,
                             [id |-> Get(r.value, "id"),
                              given |-> Truthy(Get(inp.options, "vcId"))])
                 ELSE ledger
  /\ signed' = IF r.k = "ret" /\ r.ok
                 THEN r.calls[CHOOSE i \in 1..Len(r.calls) : r.calls[i].cap = "sign"]
                 ELSE signed
  /\ issues' = issues + 1
  /\ UNCHANGED <<caps, log, audit, learned, now, bench>>

\* await engine.issueCredential(subject, type, issuerDid, options), at most
\* `most` times
IssueStep(inputs, most, keep) ==
  /\ issues < most
  /\ \E inp \in inputs :
       IssueEffect("issue", inp.options, inp,
                   issueCredential(caps, inp.subject, inp.type, inp.issuerDid, inp.options,
                                   now, nextId),
                   keep)
  /\ UNCHANGED <<heap, flight, consumer>>

IssueFrom(inputs) == IssueStep(inputs, MaxIssue, FALSE)

\* the holder overwrites or adds a top-level field of the credential
TamperSetIn(fields, most) ==
  /\ cred.t = "obj" /\ edits < most
  /\ \E f \in fields :
       /\ Get(cred, f) # Forged(f)
       /\ cred' = With(cred, f, Forged(f))
  /\ edits' = edits + 1
  /\ res' = Done("tamper", Undef, Quiet)
  /\ UNCHANGED <<caps, log, audit, learned, now, nextId, orig, args, issuedCaps, issues,
                 bench, ledger, signed, heap, flight, consumer>>

TamperSet == TamperSetIn(TopFields, MaxTamper)

\* the holder deletes a top-level field of the credential
TamperDelete ==
  /\ cred.t = "obj" /\ edits < MaxTamper
  /\ \E f \in TopFields :
       /\ HasKey(cred, f)
       /\ cred' = Without(cred, f)
  /\ edits' = edits + 1
  /\ res' = Done("tamper", Undef, Quiet)
  /\ UNCHANGED <<caps, log, audit, learned, now, nextId, orig, args, issuedCaps, issues,
                 bench, ledger, signed, heap, flight, consumer>>

\* the holder replaces the proof of the credential
TamperProofIn(hows, most) ==
  /\ cred.t = "obj" /\ edits < most
  /\ Get(cred, "proof").t = "obj" /\ Get(Get(cred, "proof"), "jwt").t = "str"
  /\ \E how \in hows :
       cred' = IF how = "noProof" THEN Without(cred, "proof")
               ELSE With(cred, "proof", EditedProof(Get(cred, "proof"), how))
  /\ edits' = edits + 1
  /\ res' = Done("tamper", Undef, Quiet)
  /\ UNCHANGED <<caps, log, audit, learned, now, nextId, orig, args, issuedCaps, issues,
                 bench, ledger, signed, heap, flight, consumer>>

TamperProof == TamperProofIn(ProofEdits, MaxTamper)

\* the same members, written in the opposite order
Reordered(o) == Obj([i \in 1..Len(o.a) |-> o.a[Len(o.a) + 1 - i]])

\* the holder writes the members of an object-valued field in another order
TamperReorder(fields, most) ==
  /\ cred.t = "obj" /\ edits < most
  /\ \E f \in fields :
       /\ Get(cred, f).t = "obj" /\ Len(Get(cred, f).a) > 1
       /\ cred' = With(cred, f, Reordered(Get(cred, f)))
  /\ edits' = edits + 1
  /\ res' = Done("tamper", Undef, Quiet)
  /\ UNCHANGED <<caps, log, audit, learned, now, nextId, orig, args, issuedCaps, issues,
                 bench, ledger, signed, heap, flight, consumer>>

\* variant: verification takes the proof off the credential it was given
VerifyWithStripping(options) ==
  /\ \E opts \in options :
       res' = Done("verify", opts, verifyCredential(caps, cred, opts, now))
  /\ cred' = IF cred.t = "obj" THEN Without(cred, "proof") ELSE cred
  /\ UNCHANGED <<caps, log, audit, learned, now, nextId, orig, args, issuedCaps,
                 issues, edits, bench, ledger, signed, heap, flight, consumer>>

\* await engine.verifyCredential(cred, options)
VerifyWith(options) ==
  /\ \E opts \in options :
       res' = Done("verify", opts, verifyCredential(caps, cred, opts, now))
  /\ UNCHANGED <<caps, log, audit, learned, now, nextId, cred, orig, args, issuedCaps,
                 issues, edits, bench, ledger, signed, heap, flight, consumer>>

\* await key.sign(data)
KeySignStep(keyring, inputs) ==
  /\ \E key \in keyring, data \in inputs :
       LET sg == KeySign(key, data)
       IN  /\ bench' = [NoBench EXCEPT !.key = key, !.data = data, !.sig = sg.v,
                                       !.issuer = bench.issuer]
           /\ res' = Done("Key.sign", Undef,
                          IF sg.k = "throw" THEN Throw(<<sg.m>>, <<>>) ELSE Success(sg.v, <<>>))
  /\ UNCHANGED <<caps, log, audit, learned, now, nextId, cred, orig, args, issuedCaps,
                 issues, edits, ledger, signed, heap, flight, consumer>>

\* await key.verify(data, signature), for the signature last produced
KeyVerifyStep(keyring, inputs) ==
  /\ bench.sig.t = "str"
  /\ \E key \in keyring, data \in inputs :
       /\ bench' = [bench EXCEPT !.verifier = key, !.checked = data]
       /\ res' = Done("Key.verify", Undef,
                      Success(Bool(KeyVerify(key, data, bench.sig)), <<>>))
  /\ UNCHANGED <<caps, log, audit, learned, now, nextId, cred, orig, args, issuedCaps,
                 issues, edits, ledger, signed, heap, flight, consumer>>

\* a caller of key.ts issues with a key in hand: createCredentialPayload, then
\* createJWTProof(payload, key, issuerDid), then { ...payload, proof }
ProveWithKey(keyring, inputs) ==
  /\ issues < MaxIssue
  /\ \E key \in keyring, inp \in inputs :
       LET pl == createCredentialPayload(inp.subject, inp.type, inp.issuerDid, inp.options,
                                         now, nextId)
           pr == keyCreateJWTProof(pl.value, key, inp.issuerDid)
       IN  /\ pl.k = "ret"
           /\ res' = Done("createJWTProof", inp.options, pr)
           /\ nextId' = IF Truthy(Get(inp.options, "vcId")) THEN nextId ELSE nextId + 1
           /\ args' = inp
           /\ bench' = [NoBench EXCEPT !.key = key,
                                       !.issuer = IF pr.ok THEN key ELSE bench.issuer]
           /\ IF pr.ok
                THEN LET vc == Obj(pl.value.a \o <<KV("proof", pr.value)>>)
                     IN  cred' = vc /\ orig' = vc /\ edits' = 0
                ELSE UNCHANGED <<cred, orig, edits>>
  /\ issues' = issues + 1
  /\ UNCHANGED <<caps, log, audit, learned, now, issuedCaps, ledger, signed, heap,
                 flight, consumer>>

\* a key is constructed: through new Key(options) or one of the factories,
\* each of which forwards its options to the constructor
KeyMake(options) ==
  /\ \E o \in options :
       /\ o.id = "" => nextId <= MaxKeys
       /\ bench' = [NoBench EXCEPT !.key = KeyNew(o.id, o.pub, o.priv, o.type, o.signer, nextId)]
       /\ nextId' = IF o.id = "" THEN nextId + 1 ELSE nextId
       /\ res' = Done(o.via, Undef, Quiet)
  /\ UNCHANGED <<caps, log, audit, learned, now, cred, orig, args, issuedCaps, issues, edits,
                 ledger, signed, heap, flight, consumer>>

\* key.toPublicKey(), the result taking the place of the key in hand
ToPublicKeyStep ==
  /\ bench.key # NoKey
  /\ bench' = [NoBench EXCEPT !.key = toPublicKey(bench.key)]
  /\ res' = Done("Key.toPublicKey", Undef, Quiet)
  /\ UNCHANGED <<caps, log, audit, learned, now, nextId, cred, orig, args, issuedCaps,
                 issues, edits, ledger, signed, heap, flight, consumer>>

\* await issueVC(subject, type, issuerDid, options)
IssueVC(inputs) ==
  /\ issues < MaxIssue
  /\ \E inp \in inputs :
       LET r == issueVC(inp.subject, inp.type, inp.issuerDid, inp.options, now, nextId)
       IN  /\ res' = Done("issueVC", inp.options, r)
           /\ nextId' = IF Truthy(Get(inp.options, "vcId")) THEN nextId ELSE nextId + 1
           /\ args' = inp
           /\ IF r.k = "ret" /\ r.ok
                THEN cred' = r.value /\ orig' = r.value /\ edits' = 0
                ELSE UNCHANGED <<cred, orig, edits>>
  /\ issues' = issues + 1
  /\ UNCHANGED <<caps, log, audit, learned, now, issuedCaps, bench, ledger, signed,
                 heap, flight, consumer>>

\* await verifyVC(verificationKey, cred, options)
VerifyVC(keyring, options) ==
  /\ cred # Undef
  /\ \E key \in keyring, opts \in options :
       /\ bench' = [bench EXCEPT !.verifier = key]
       /\ res' = Done("verifyVC", opts, verifyVC(key, cred, opts, now))
  /\ UNCHANGED <<caps, log, audit, learned, now, nextId, cred, orig, args, issuedCaps,
                 issues, edits, ledger, signed, heap, flight, consumer>>

\* await engine.validateStructure(candidate)
ValidateStep(candidates) ==
  /\ \E c \in candidates \cup {cred} :
       res' = Done("validate", c, validateStructure(c))
  /\ UNCHANGED <<caps, log, audit, learned, now, nextId, cred, orig, args, issuedCaps,
                 issues, edits, bench, ledger, signed, heap, flight, consumer>>

\* consumer.learn([engine.teach()]): the consumer copies the entries
TeachStep ==
  /\ consumer' = [names |-> teach.capabilities, since |-> Len(learned)]
  /\ res' = Done("teach", Undef, Quiet)
  /\ UNCHANGED <<caps, log, audit, learned, now, nextId, cred, orig, args, issuedCaps,
                 issues, edits, bench, ledger, signed, heap, flight>>

\* await consumer.capabilities.get(name)(...argv), issuing at most `most` times
InvokeTaught(name, lists, most) ==
  /\ \E i \in 1..Len(consumer.names) : consumer.names[i] = name
  /\ \E argv \in lists :
       IF name = "issueCredential"
         THEN /\ issues < most
              /\ IssueEffect("taught.issueCredential", Arr(argv),
                             Input(Arg(argv, 1), Arg(argv, 2), Arg(argv, 3), Arg(argv, 4)),
                             Taught(caps, name, argv, now, nextId), FALSE)
         ELSE /\ res' = Done("taught." \o name, Arr(argv),
                             Taught(caps, name, argv, now, nextId))
              /\ UNCHANGED <<caps, log, audit, learned, now, nextId, cred, orig, args,
                             issuedCaps, issues, edits, bench, ledger, signed>>
  /\ UNCHANGED <<heap, flight, consumer>>

\* variant: a call resumed after its await works with the table of that time
TableReadLate(started, current) == current

\* the capability table an issueCredential or verifyCredential call works
\* with: can() and execute() are reached in the synchronous run from the call
\* to `await this.execute(...)`, so it is the table of the time of the call
TableRead(started, current) == started

\* engine.issueCredential(...) is called and runs up to `await this.execute("sign", ...)`
IssueBegin(inputs, most) ==
  /\ flight = NoFlight /\ issues < most
  /\ \E inp \in inputs :
       /\ flight' = Flight("issue", inp, Undef, caps, now, nextId)
       /\ nextId' = IF CallsCreateId(caps, inp.options) THEN nextId + 1 ELSE nextId
  /\ issues' = issues + 1
  /\ res' = Done("issue.begin", Undef, Quiet)
  /\ UNCHANGED <<caps, log, audit, learned, now, cred, orig, args, issuedCaps, edits,
                 bench, ledger, signed, heap, consumer>>

\* what the caller holds once the suspended issueCredential call has returned r
IssueSettled(inp, r) ==
  /\ res' = Done("issue", inp.options, r)
  /\ args' = inp
  /\ issuedCaps' = flight.caps
  /\ IF r.k = "ret" /\ r.ok
       THEN /\ cred' = r.value /\ orig' = r.value /\ edits' = 0
            /\ signed' = r.calls[CHOOSE i \in 1..Len(r.calls) : r.calls[i].cap = "sign"]
       ELSE UNCHANGED <<cred, orig, edits, signed>>

\* the sign delegate settles and the suspended issueCredential call returns
IssueEnd ==
  /\ flight.op = "issue"
  /\ IssueSettled(flight.inp,
                  issueCredential(TableRead(flight.caps, caps), flight.inp.subject,
                                  flight.inp.type, flight.inp.issuerDid, flight.inp.options,
                                  flight.now, flight.cuid))
  /\ flight' = NoFlight
  /\ UNCHANGED <<caps, log, audit, learned, now, nextId, issues, bench, ledger, heap,
                 consumer>>

\* engine.verifyCredential(cred, options) is called and runs up to
\* `await this.execute("verify", ...)`
VerifyBegin(options) ==
  /\ flight = NoFlight /\ cred # Undef
  /\ \E opts \in options :
       flight' = Flight("verify", Input(Undef, Undef, Undef, opts), cred, caps, now, nextId)
  /\ res' = Done("verify.begin", Undef, Quiet)
  /\ UNCHANGED <<caps, log, audit, learned, now, nextId, cred, orig, args, issuedCaps,
                 issues, edits, bench, ledger, signed, heap, consumer>>

\* the verify delegate settles and the suspended verifyCredential call goes
\* on to the field, expiration (Date.now() is read here) and issuer checks
VerifyEnd ==
  /\ flight.op = "verify"
  /\ res' = Done("verify", flight.inp.options,
                 verifyCredential(TableRead(flight.caps, caps), flight.credential,
                                  flight.inp.options, now))
  /\ flight' = NoFlight
  /\ UNCHANGED <<caps, log, audit, learned, now, nextId, cred, orig, args, issuedCaps,
                 issues, edits, bench, ledger, signed, heap, consumer>>

\* credential i as it reads now: its @context is the DEFAULT_CONTEXT array
\* itself when it was issued without options.context, and its
\* credentialSubject is the object the caller passed
Deref(h, i) ==
  LET card == h.cards[i]
      ctx  == IF card.shared THEN Arr(h.defaults) ELSE Get(card.vc, "@context")
  IN  With(With(card.vc, "@context", ctx), "credentialSubject", h.subject)

\* await engine.issueCredential(subject, ...) with the subject object the
\* caller keeps; the credential returned is kept as well
IssueKept(types, optionses, most) ==
  /\ issues < most
  /\ \E ty \in types, options \in optionses :
       LET inp == Input(heap.subject, ty, IssuerA, options)
           r   == issueCredentialIn(heap.defaults, caps, inp.subject, inp.type,
                                    inp.issuerDid, inp.options, now, nextId)
       IN  /\ IssueEffect("issue", options, inp, r, FALSE)
           /\ heap' = IF r.k = "ret" /\ r.ok
                        THEN [heap EXCEPT !.cards =
                                Append(@, [vc |-> r.value,
                                           shared |-> ~Truthy(Get(options, "context")),
                                           pushed |-> FALSE])]
                        ELSE heap
  /\ UNCHANGED <<flight, consumer>>

\* kept.credentialSubject.degree = 'PhD', or subject.degree = 'PhD' by the caller
WriteSubject ==
  /\ Get(heap.subject, "degree") # Lit("PhD")
  /\ heap' = [heap EXCEPT !.subject = With(@, "degree", Lit("PhD"))]
  /\ res' = Done("write", Undef, Quiet)
  /\ UNCHANGED <<caps, log, audit, learned, now, nextId, cred, orig, args, issuedCaps,
                 issues, edits, bench, ledger, signed, flight, consumer>>

\* kept[i]["@context"].push(uri)
PushContext(most) ==
  /\ \E i \in 1..Len(heap.cards) :
       LET ctx == Get(Deref(heap, i), "@context").a \o <<Lit("https://example.org/added")>>
       IN  /\ Len(ctx) <= Len(DEFAULT_CONTEXT) + 1 + most
           /\ heap' = IF heap.cards[i].shared
                        THEN [heap EXCEPT !.defaults = ctx, !.cards[i].pushed = TRUE]
                        ELSE [heap EXCEPT !.cards[i].vc = With(@, "@context", Arr(ctx)),
                                          !.cards[i].pushed = TRUE]
  /\ res' = Done("write", Undef, Quiet)
  /\ UNCHANGED <<caps, log, audit, learned, now, nextId, cred, orig, args, issuedCaps,
                 issues, edits, bench, ledger, signed, flight, consumer>>

\* await engine.verifyCredential(kept[i])
VerifyKept ==
  /\ \E i \in 1..Len(heap.cards) :
       /\ res' = Done("verify", Num(i), verifyCredential(caps, Deref(heap, i), Undef, now))
       /\ cred' = Deref(heap, i)
  /\ UNCHANGED <<caps, log, audit, learned, now, nextId, orig, args, issuedCaps,
                 issues, edits, bench, ledger, signed, heap, flight, consumer>>

\* ---------------------------------------------------------- specifications
MaxSetup == 1    \* learn calls while an engine is set up
MaxBatch == 3    \* credentials issued one after another by one engine
MaxDefects == 2  \* edits that put defects of several kinds into one credential

WholeSeconds == {sec * MsPerSecond : sec \in 0..MaxSec}

\* The life of one engine: it learns from a unit, issues, time passes, it
\* verifies what it issued.
SetupMenu ==
  {<<Teach(1)>>, <<Teach(2)>>, <<Contract("key", 1, <<"sign">>)>>}

LifeInputs ==
  {Input(sub, TypeOne, IssuerA, Undef) : sub \in {SubjAlice, SubjBob, SubjNoHolder}}
  \cup {Input(SubjAlice, ty, IssuerA, Undef) : ty \in {TypeList, TypeBase}}
  \cup {Input(SubjAlice, TypeOne, EmptyStr, Undef)}
  \cup {Input(SubjAlice, TypeOne, IssuerA, o) :
          o \in {Opt("context", Arr(<<Lit("https://example.org/ctx")>>)),
                 Opt("vcId", Lit("urn:fixed:1")),
                 Opt("proofFormat", Lit("jsonld")),
                 OptMeta,
                 Opt("expirationDate", ToISOString(MsPerSecond))}}

Next ==
  \/ LearnFrom(SetupMenu, MaxSetup)
  \/ IssueFrom(LifeInputs)
  \/ TickIn(WholeSeconds)
  \/ VerifyWith(VerifyOptions)

Spec == Init /\ [][Next]_vars

\* A holder edits an issued credential before it is verified.
TamperInputs ==
  {Input(SubjAlice, TypeOne, IssuerA, o) :
     o \in {Undef, OptMeta, Opt("expirationDate", ToISOString(MsPerSecond))}}

NextTamper ==
  \/ LearnFrom({<<Teach(1)>>, <<Teach(2)>>}, MaxSetup)
  \/ IssueFrom(TamperInputs)
  \/ TamperSet
  \/ TamperDelete
  \/ TamperProof
  \/ VerifyWith({Undef, Opt("checkExpiration", Bool(FALSE))})

SpecTamper == Init /\ [][NextTamper]_vars

\* Expiration: credentials with and without expirationDate, verified as the
\* clock moves through the milliseconds around each second.
ClockInputs ==
  {Input(SubjAlice, TypeOne, IssuerA, Undef)}
  \cup {Input(SubjAlice, TypeOne, IssuerA, Opt("expirationDate", ToISOString(t))) : t \in Times}

NextClock ==
  \/ LearnFrom({<<Teach(1)>>}, MaxSetup)
  \/ IssueFrom(ClockInputs)
  \/ TickIn(Times)
  \/ VerifyWith({Undef, Opt("checkExpiration", Bool(TRUE)), Opt("checkExpiration", Bool(FALSE))})

SpecClock == Init /\ [][NextClock]_vars

\* Faults: providers whose sign or verify throws or returns nothing, inputs
\* that cannot be serialised, proofs that cannot be parsed.
FaultMenu ==
  {<<Teach(1)>>, <<Teach(3)>>, <<Teach(4)>>, <<Teach(1), Contract("vault", 4, <<"verify">>)>>}

FaultInputs ==
  {Input(sub, TypeOne, IssuerA, Undef) : sub \in {SubjAlice, SubjNoHolder, SubjCyclic}}
  \cup {Input(SubjAlice, TypeOne, IssuerA, Opt("context", Num(1)))}

NextFault ==
  \/ LearnFrom(FaultMenu, MaxSetup)
  \/ IssueFrom(FaultInputs)
  \/ TamperProof
  \/ VerifyWith({Undef})

SpecFault == Init /\ [][NextFault]_vars

\* key.ts on its own: keys of the three variants sign and verify data, and
\* issue and verify credentials through the pure functions.
Key4 == toPublicKey(Key2)

Keyring == {Key1, Key2, Key3, Key4}

DataInputs == {Lit("hello"), Lit("did"), Str(<<Ch("did"), Colon, Ch("alice")>>), EmptyStr}

KeyInputs ==
  {Input(SubjAlice, TypeOne, IssuerA, o) : o \in {Undef, Opt("vcId", Lit("urn:fixed:1"))}}

NextKey ==
  \/ KeySignStep(Keyring, DataInputs)
  \/ KeyVerifyStep(Keyring, DataInputs)
  \/ ProveWithKey(Keyring, KeyInputs)
  \/ IssueVC(KeyInputs)
  \/ VerifyVC(Keyring, {Undef})

SpecKey == Init /\ [][NextKey]_vars

\* The life of a key: it is constructed, signs and verifies, and is turned
\* into its public-only copy.
KeyOption(via, id, pub, priv, type, signer) ==
  [via |-> via, id |-> id, pub |-> pub, priv |-> priv, type |-> type, signer |-> signer]

Signer1 == DirectSigner("priv2", "pub2", "Secp256k1")

KeyOptions ==
  {KeyOption("Key.create", id, "pub1", priv, ty, NoSigner) :
     id \in {"key-1", ""}, priv \in {"priv1", ""}, ty \in {"Ed25519", ""}}
  \cup {KeyOption("Key.createWithSigner", id, "pub2", "", "Secp256k1", Signer1) :
          id \in {"key-2", ""}}
  \cup {KeyOption("Key.createPublic", "key-3", "pub1", "", "Ed25519", NoSigner)}
  \cup {KeyOption("new Key", "key-4", "pub1", priv, "Ed25519", sg) :
          priv \in {"priv1", ""}, sg \in {Signer1, NoSigner}}

NextKeyLife ==
  \/ KeyMake(KeyOptions)
  \/ ToPublicKeyStep
  \/ bench.key # NoKey /\ KeySignStep({bench.key}, DataInputs)
  \/ bench.key # NoKey /\ KeyVerifyStep({bench.key}, DataInputs)

SpecKeyLife == Init /\ [][NextKeyLife]_vars

\* Learning: an engine learns several times, from several units whose
\* contracts expose different names, and issues and verifies in between.
LearnMenu ==
  {<<Teach(1)>>, <<Teach(2)>>, <<Teach(1), Teach(2)>>, <<Teach(4), Teach(1)>>,
   <<Contract("key", 2, <<"sign">>)>>,
   <<Contract("vault", 4, <<"verify", "encrypt">>)>>,
   <<Contract("key", 1, <<"getPublicKey">>)>>,
   <<>>}

NextLearn ==
  \/ LearnFrom(LearnMenu, MaxLearn)
  \/ IssueFrom({Input(SubjAlice, TypeOne, IssuerA, Undef)})
  \/ VerifyWith({Undef})

SpecLearn == Init /\ [][NextLearn]_vars

\* one engine issues a batch of credentials, the caller naming the id of some
FixedId == Lit("urn:fixed:1")

BatchInputs ==
  {Input(SubjAlice, ty, IssuerA, Undef) : ty \in {TypeOne, TypeList, TypeBase, VC}}
  \cup {Input(SubjAlice, TypeOne, IssuerA, Opt("vcId", id)) : id \in {FixedId, EmptyStr}}

NextBatch ==
  \/ LearnFrom({<<Teach(1)>>}, MaxSetup)
  \/ IssueStep(BatchInputs, MaxBatch, TRUE)

SpecBatch == Init /\ [][NextBatch]_vars

\* a consumer copies the entries of teach() and uses them while the engine
\* goes on learning
TaughtArgs(name) ==
  CASE name = "issueCredential" ->
         {<<SubjAlice, TypeOne, IssuerA>>,
          <<SubjAlice, TypeList, IssuerA, Opt("vcId", FixedId)>>,
          <<SubjAlice, TypeOne, IssuerA, Undef, Lit("spare")>>,
          <<SubjNoHolder, TypeOne, IssuerA>>}
    [] name = "verifyCredential" ->
         {<<cred>>, <<cred, Opt("expectedIssuer", Lit("did:x:other"))>>, <<>>}
    [] OTHER -> {<<cred>>, <<>>, <<SubjAlice, cred>>}

NextTeach ==
  \/ LearnFrom({<<Teach(1)>>, <<Contract("key", 1, <<"sign">>)>>}, MaxLearn)
  \/ TeachStep
  \/ \E name \in {"issueCredential", "verifyCredential", "validateStructure"} :
       InvokeTaught(name, TaughtArgs(name), MaxIssue)

SpecTeach == Init /\ [][NextTeach]_vars

\* candidates are handed to validateStructure: a well-formed credential
\* stripped of some of its fields, or with a field of another shape
Sample ==
  Obj(<<KV("@context", Arr(DEFAULT_CONTEXT)), KV("type", Arr(<<VC, TypeOne>>)),
        KV("issuer", Obj(<<KV("id", IssuerA)>>)), KV("issuanceDate", Lit("2024-01-01")),
        KV("credentialSubject", SubjAlice),
        KV("proof", Obj(<<KV("type", Lit("JwtProof2020")), KV("jwt", Lit("a.b.c"))>>))>>)

Required == <<"@context", "type", "issuer", "issuanceDate", "credentialSubject", "proof">>

RECURSIVE Stripped(_, _)
Stripped(c, fields) ==
  IF fields = {} THEN c
  ELSE LET f == CHOOSE x \in fields : TRUE IN Stripped(Without(c, f), fields \ {f})

Misshapen(field) ==
  CASE field = "@context" -> {Lit("https://www.w3.org/2018/credentials/v1"), Arr(<<>>)}
    [] field = "type" -> {VC, Arr(<<TypeOne>>), Arr(<<>>)}
    [] field = "issuer" -> {EmptyStr, IssuerA}
    [] field = "issuanceDate" -> {EmptyStr, Num(0)}
    [] field = "credentialSubject" -> {SubjNoHolder, Lit("did:x:alice"), Null}
    [] OTHER -> {Null, Bool(FALSE), Obj(<<>>)}

Candidates ==
  {Stripped(Sample, fields) : fields \in SUBSET {Required[i] : i \in 1..Len(Required)}}
  \cup UNION {{With(Sample, Required[i], v) : v \in Misshapen(Required[i])} :
              i \in 1..Len(Required)}
  \cup {With(With(Sample, "type", VC), "issuer", EmptyStr)}
  \cup {Undef, Null, Lit("credential"), Num(1), Arr(<<>>), Obj(<<>>)}

NextValidate ==
  \/ LearnFrom({<<Teach(1)>>}, MaxSetup)
  \/ IssueFrom({Input(SubjAlice, TypeOne, IssuerA, Undef),
                Input(SubjNoHolder, TypeOne, IssuerA, Undef)})
  \/ ValidateStep(Candidates)

SpecValidate == Init /\ [][NextValidate]_vars

\* credentials with several defects at once: edited fields, an edited proof,
\* an expiration date in the past, an issuer the verifier does not expect
DefectInputs ==
  {Input(SubjAlice, TypeOne, IssuerA, o) :
     o \in {Undef, Opt("expirationDate", ToISOString(0)),
            Opt("expirationDate", ToISOString(MsPerSecond))}}

NextDefects ==
  \/ LearnFrom({<<Teach(1)>>}, MaxSetup)
  \/ IssueFrom(DefectInputs)
  \/ TickIn(WholeSeconds)
  \/ TamperSetIn({"issuer", "credentialSubject"}, MaxDefects)
  \/ TamperProofIn({"wrongType", "twoSegments", "emptyJwt", "garbagePayload",
                    "forgedSignature"}, MaxDefects)
  \/ VerifyWith(VerifyOptions)

SpecDefects == Init /\ [][NextDefects]_vars

\* the holder passes the credential through software that rewrites it: fields
\* replaced, removed, or written with their members in another order
BindingInputs ==
  {Input(SubjBob, TypeOne, IssuerA, Undef), Input(SubjAlice, TypeList, IssuerA, OptMeta)}

NextBinding ==
  \/ LearnFrom({<<Teach(1)>>}, MaxSetup)
  \/ IssueFrom(BindingInputs)
  \/ TamperSetIn(TopFields, MaxDefects)
  \/ TamperDelete
  \/ TamperReorder({"credentialSubject", "issuer"}, MaxDefects)
  \/ VerifyWith({Undef})

SpecBinding == Init /\ [][NextBinding]_vars

\* credentials are issued by engines taught by keys of two types, with and
\* without dates, context, meta and id of the caller's choice
ProofInputs ==
  {Input(SubjAlice, TypeOne, IssuerA, o) :
     o \in {Undef, OptMeta, Opt("vcId", FixedId),
            Opt("issuanceDate", ToISOString(MsPerSecond + 1)),
            Opt("expirationDate", ToISOString(2 * MsPerSecond - 1)),
            Opt("context", Arr(<<Lit("https://example.org/ctx")>>)),
            Opt("header", Obj(<<KV("alg", Lit("ES256K"))>>))}}
  \cup {Input(SubjBob, TypeList, Lit("did:x:registrar"), Undef)}

NextProof ==
  \/ LearnFrom({<<Teach(1)>>, <<Teach(2)>>}, MaxSetup)
  \/ TickIn(Times)
  \/ IssueFrom(ProofInputs)

SpecProof == Init /\ [][NextProof]_vars

\* an engine goes on learning while a call is suspended
NextFlight ==
  \/ LearnFrom({<<Teach(1)>>, <<Teach(2)>>, <<Teach(4)>>, <<Contract("key", 3, <<"sign">>)>>},
               MaxLearn)
  \/ TickIn(WholeSeconds)
  \/ IssueBegin({Input(SubjAlice, TypeOne, IssuerA, Undef),
                 Input(SubjBob, TypeOne, IssuerA,
                       Opt("expirationDate", ToISOString(MsPerSecond)))}, MaxIssue)
  \/ IssueEnd
  \/ VerifyBegin({Undef})
  \/ VerifyEnd

SpecFlight == Init /\ [][NextFlight]_vars

\* a caller keeps the subject object and the credentials returned, and writes
\* to them between issuances
NextKept ==
  \/ LearnFrom({<<Teach(1)>>}, MaxSetup)
  \/ IssueKept({TypeOne},
               {Undef, Opt("context", Arr(<<Lit("https://example.org/ctx")>>))}, MaxIssue + 1)
  \/ WriteSubject
  \/ PushContext(MaxTamper)
  \/ VerifyKept

SpecKept == Init /\ [][NextKept]_vars

\* Proof parsing: the segments of an issued jwt are replaced by text that is
\* no base64url-encoded JSON, with the signature kept or made anew.
NextHeader ==
  \/ LearnFrom({<<Teach(1)>>, <<Teach(2)>>, <<Teach(1), Teach(3)>>}, MaxSetup)
  \/ IssueFrom(TamperInputs)
  \/ TamperProofIn({"garbageHeader", "resignedHeader", "garbagePayload"}, MaxTamper)
  \/ VerifyWith({Undef, Opt("checkExpiration", Bool(FALSE))})

SpecHeader == Init /\ [][NextHeader]_vars

\* one engine through its whole interface: it learns from keys, partial
\* contracts and a foreign unit, issues, verifies, validates and teaches
GrowMenu ==
  {<<Teach(1)>>, <<Teach(4), Teach(2)>>,
   <<Contract("key", 2, <<"sign">>)>>,
   <<Contract("vault", 4, <<"verify", "encrypt">>)>>,
   <<Contract("key", 1, <<"getPublicKey">>)>>,
   <<>>}

NextGrow ==
  \/ LearnFrom(GrowMenu, MaxLearn)
  \/ IssueFrom({Input(SubjAlice, TypeOne, IssuerA, Undef)})
  \/ VerifyWith({Undef})
  \/ ValidateStep({Sample, Undef})
  \/ TeachStep

SpecGrow == Init /\ [][NextGrow]_vars

\* engines whose sign capability comes from a key or from a foreign unit
NextSigners ==
  \/ LearnFrom({<<Teach(1)>>, <<Teach(2)>>, <<Teach(4)>>, <<Teach(5)>>, <<Teach(6)>>}, MaxSetup)
  \/ IssueFrom(TamperInputs)
  \/ TickIn(WholeSeconds)
  \/ VerifyWith({Undef, Opt("checkExpiration", Bool(FALSE))})

SpecSigners == Init /\ [][NextSigners]_vars

\* ------------------------------------------------------------- properties
\* every capability the engine uses comes from provider p
LearnedAllFrom(c, p) ==
  /\ can(c, "sign") /\ can(c, "verify") /\ can(c, "getPublicKey")
  /\ c[Plain("sign")] = p /\ c[Plain("verify")] = p /\ c[Plain("getPublicKey")] = p

\* a key provider that holds signing material
SigningProviders == {p \in ProviderIds : Providers[p].kind = "key" /\ canSign(Providers[p].key)}

\* the subject carries holder.id
HasHolderId(subject) == Get(Get(subject, "holder"), "id").t = "str"

\* the expirationDate the call asked for is not before the clock
NotPastExpiry(options, nowMs) ==
  LET exp == Get(options, "expirationDate")
  IN  exp.t = "undef" \/ (DateGetTime(exp).t = "num" /\ DateGetTime(exp).n >= nowMs)

\* issueCredential(subject, type, issuerId) with at most an expirationDate
PlainIssue(inp) ==
  /\ HasHolderId(inp.subject)
  /\ inp.options = Undef \/ Keys(inp.options) = <<"expirationDate">>

\* the last verifyCredential call was given the credential exactly as the
\* last issueCredential call returned it, by an engine taught by one signing
\* provider, without an expectation the issuer does not meet
RoundTripCase ==
  /\ res.op = "verify"
  /\ orig # Undef /\ cred = orig
  /\ \E p \in SigningProviders : LearnedAllFrom(caps, p) /\ LearnedAllFrom(issuedCaps, p)
  /\ PlainIssue(args)
  /\ NotPastExpiry(args.options, now)
  /\ Get(res.opts, "expectedIssuer") \in {Undef, args.issuerDid}

\* the last issueCredential call was made by such an engine with such inputs
IssueCase ==
  /\ res.op = "issue"
  /\ \E p \in SigningProviders : LearnedAllFrom(issuedCaps, p)
  /\ PlainIssue(args)

\* C1: round trip.  An engine taught sign, verify and getPublicKey by one
\* signing key provider issues a credential for every subject with holder.id,
\* every type and every issuer id, and verifying that credential, while its
\* expirationDate is not in the past, succeeds with verified = true,
\* issuer = the issuer id and subject = subject.holder.id.
RoundTrip ==
  /\ IssueCase => res.out.k = "ret" /\ res.out.ok
  /\ RoundTripCase =>
       /\ res.out.k = "ret" /\ res.out.ok
       /\ Get(res.out.value, "verified") = Bool(TRUE)
       /\ Get(res.out.value, "issuer") = args.issuerDid
       /\ Get(res.out.value, "subject") = Get(Get(args.subject, "holder"), "id")

\* a credential whose expirationDate equals the clock, after the clock moved,
\* has been issued and verified
RoundTripReached ==
  /\ RoundTripCase
  /\ res.out.ok
  /\ now > 0
  /\ Get(args.options, "expirationDate") = ToISOString(now)

\* the failure verifyJWTProof returns when a signed field does not match
IsFieldMismatch(out) ==
  /\ out.k = "ret" /\ ~out.ok
  /\ Len(out.msg) = 3 /\ out.msg[1] = "JWT payload field \""

\* the last verifyCredential call was given an issued credential whose
\* top-level fields other than proof were edited, with its original proof
TamperCase ==
  /\ res.op = "verify"
  /\ orig # Undef
  /\ Get(cred, "proof") = Get(orig, "proof")
  /\ Without(cred, "proof") # Without(orig, "proof")

\* the fields the signed payload carries: those issued with a defined value
SignedFields == {f \in TopFields : Get(orig, f).t # "undef"}

\* a signed field was changed or removed: its JSON text is no longer the same
SignedFieldEdited == \E f \in SignedFields : Canon(Get(cred, f)) # Canon(Get(orig, f))

\* C2 as stated: every edit of a top-level field other than proof (a change,
\* an addition, a removal) makes verification with the original proof fail
\* with a field mismatch.
EveryEditDetected == TamperCase => IsFieldMismatch(res.out)

\* C2, amended: an edit that changes or removes a field the signed payload
\* carries makes verification with the original proof fail with a field
\* mismatch naming a signed field; edits that only add fields the signed
\* payload does not carry, or remove fields issued as undefined, are not
\* reported as a mismatch.
SignedEditDetected ==
  TamperCase =>
    /\ SignedFieldEdited => IsFieldMismatch(res.out) /\ res.out.msg[2] \in SignedFields
    /\ ~SignedFieldEdited => ~IsFieldMismatch(res.out)

\* a credential whose issuer was replaced has been verified and refused
SignedEditReached ==
  /\ TamperCase
  /\ Get(cred, "issuer") = Forged("issuer")
  /\ IsFieldMismatch(res.out) /\ res.out.msg[2] = "issuer"

\* "Invalid signature", as verifyJWTProof reports it
IsInvalidSignature(out) == out.k = "ret" /\ ~out.ok /\ out.msg = <<"Invalid signature">>

\* the last verifyVC call was given the credential issued with one key and a
\* verification key with different public key material
WrongKeyCase ==
  /\ res.op = "verifyVC"
  /\ cred = orig
  /\ bench.issuer # NoKey
  /\ bench.verifier.publicKeyHex # bench.issuer.publicKeyHex

\* C3 as stated: a credential issued with key K, verified with a key whose
\* public key material differs from K's, fails with an invalid-signature
\* failure.
WrongKeyRejected == WrongKeyCase => IsInvalidSignature(res.out)

\* C4 as stated: on a Public-only key sign fails for every input, issuing
\* with it fails with 'Key cannot sign', and verify on it returns true for a
\* signature the Direct or Signer-backed key it was derived from produced
\* over the same data.
PublicOnlyCannotSign ==
  /\ res.op = "Key.sign" /\ isPublicKey(bench.key) =>
       res.out.k = "throw" /\ res.out.msg = <<ErrKeyCannotSign>>
  /\ res.op = "createJWTProof" /\ isPublicKey(bench.key) =>
       res.out.k = "ret" /\ ~res.out.ok /\ res.out.msg = <<ErrKeyCannotSign>>
  /\ ( /\ res.op = "Key.verify"
       /\ canSign(bench.key)
       /\ bench.verifier = toPublicKey(bench.key)
       /\ bench.checked = bench.data )
     => res.out.value = Bool(TRUE)

\* "Credential has expired", as verifyJWTProof reports it
IsExpiredFailure(out) == out.k = "ret" /\ ~out.ok /\ out.msg = <<"Credential has expired">>

\* the last verifyCredential call checked expiration on a credential exactly
\* as it was issued
ExpiryCheckedCase ==
  /\ res.op = "verify"
  /\ orig # Undef /\ cred = orig
  /\ Get(res.opts, "checkExpiration") # Bool(FALSE)

\* C5 as stated: with expiration checking on, a credential whose
\* expirationDate equals the current time verifies, one whose expirationDate
\* is any positive amount before the current time fails with Expired, and one
\* issued without expirationDate never fails with Expired.
ExpirationBoundary ==
  LET exp == Get(args.options, "expirationDate")
  IN  ExpiryCheckedCase =>
        /\ exp.t = "undef" => ~IsExpiredFailure(res.out)
        /\ exp.t = "str" /\ DateGetTime(exp).n = now => res.out.ok
        /\ exp.t = "str" /\ DateGetTime(exp).n < now => IsExpiredFailure(res.out)

\* the contracts learned so far, in call order and then list order
RECURSIVE Flatten(_)
Flatten(lists) == IF lists = <<>> THEN <<>> ELSE Head(lists) \o Flatten(Tail(lists))

\* whether a contract exposes a capability name
Exposes(contract, name) == \E i \in 1..Len(contract.names) : contract.names[i] = name

\* the provider of the last contract that exposed the name; 0 if none did
LastWriter(contracts, name) ==
  LET hits == {i \in 1..Len(contracts) : Exposes(contracts[i], name)}
  IN  IF hits = {} THEN 0
      ELSE contracts[CHOOSE i \in hits : \A j \in hits : j <= i].p

\* C6: last writer wins.  After any sequence of learn calls the
\* implementation held for sign, verify and getPublicKey is the one of the
\* last contract, in call order and then list order, that exposed the name
\* (none if no contract did), and an issuance invokes only that sign.
LastWriterWins ==
  /\ \A name \in Recognized :
       LET p == LastWriter(Flatten(learned), name)
       IN  IF p = 0 THEN ~can(caps, name)
           ELSE can(caps, name) /\ caps[Plain(name)] = p
  /\ res.op = "issue" =>
       \A i \in 1..Len(res.out.calls) :
         res.out.calls[i].cap = "sign" =>
           res.out.calls[i].p = LastWriter(Flatten(learned), "sign")

\* after learning from provider 1 and then from provider 2, which both expose
\* sign, an issuance has invoked provider 2's sign
LastWriterReached ==
  /\ learned = <<(<<Teach(1)>>), (<<Teach(2)>>)>>
  /\ res.op = "issue"
  /\ Len(res.out.calls) = 1 /\ res.out.calls[1].cap = "sign" /\ res.out.calls[1].p = 2

\* the types the caller passed: the list, or the one string
CallerTypes(type) == IF type.t = "arr" THEN type.a ELSE <<type>>

\* C7: the type of every issued credential is 'VerifiableCredential' followed
\* by the caller's types in their given order, whether the caller passed one
\* string or a list; its first element is always 'VerifiableCredential'.
TypePrefixed ==
  res.op = "issue" /\ res.out.ok =>
    LET type == Get(res.out.value, "type")
    IN  /\ type.t = "arr"
        /\ type.a = <<Lit("VerifiableCredential")>> \o CallerTypes(args.type)
        /\ type.a[1] = Lit("VerifiableCredential")

\* a credential has been issued for a list of two types
TypePrefixedReached ==
  /\ res.op = "issue" /\ res.out.ok
  /\ args.type = TypeList
  /\ Len(Get(res.out.value, "type").a) = 3

\* the failures that report a proof that cannot be parsed
IsMalformedProof(out) ==
  /\ out.k = "ret" /\ ~out.ok
  /\ out.msg[1] \in {"Invalid JWT format", "No JWT found in proof",
                     "Failed to verify JWT proof: ", "Failed to parse JWT payload: "}

\* the last verifyCredential call, by an engine able to verify, was given a
\* credential with a JwtProof2020 proof whose jwt is not three dot-separated
\* segments
SegmentsCase ==
  LET proof == Get(cred, "proof")
      jwt   == Get(proof, "jwt")
  IN  /\ res.op = "verify"
      /\ CanVerify(caps)
      /\ proof.t = "obj" /\ Get(proof, "type") = Lit("JwtProof2020")
      /\ jwt.t # "str" \/ Len(Split(jwt, Dot)) # 3

\* C8 as stated: a credential whose proof.jwt does not consist of exactly
\* three dot-separated segments is refused with a malformed-proof failure
\* Result, without a throw and without a call of the verify capability.
WrongSegmentsMalformed ==
  SegmentsCase =>
    /\ IsMalformedProof(res.out)
    /\ \A i \in 1..Len(res.out.calls) : res.out.calls[i].cap # "verify"

\* the capability table holds the plain name
Learned(c, name) == <<"", name>> \in DOMAIN c

\* C9: capability gating.  issueCredential on an engine lacking sign or
\* getPublicKey, and verifyCredential on an engine lacking verify or
\* getPublicKey, return the missing-capability failure, invoke no learned
\* capability and produce no value; a freshly created engine holds no
\* capability at all.
CapabilityGated ==
  /\ res.op = "issue" /\ ~(Learned(issuedCaps, "sign") /\ Learned(issuedCaps, "getPublicKey")) =>
       /\ res.out.k = "ret" /\ ~res.out.ok
       /\ res.out.msg = <<"Cannot issue credential: missing getPublicKey or sign capability. Learn from a crypto unit.">>
       /\ res.out.calls = <<>>
       /\ res.out.value = Undef
  /\ res.op = "verify" /\ ~(Learned(caps, "verify") /\ Learned(caps, "getPublicKey")) =>
       /\ res.out.k = "ret" /\ ~res.out.ok
       /\ res.out.msg = <<"Missing getPublicKey or verify capability">>
       /\ res.out.calls = <<>>
       /\ res.out.value = Undef
  /\ learned = <<>> => DOMAIN caps = {} /\ cred = Undef

\* an engine that learned sign but not getPublicKey has refused to issue
CapabilityGatedReached ==
  /\ res.op = "issue"
  /\ Learned(issuedCaps, "sign") /\ ~Learned(issuedCaps, "getPublicKey")
  /\ ~res.out.ok /\ res.out.calls = <<>>

\* C10: Result as value.  Every issueCredential and verifyCredential call
\* returns a Result, a success carrying a value or a failure carrying a
\* message, and lets no exception reach the caller: not when the learned sign
\* or verify throws, not when the proof payload cannot be decoded, not when
\* the credential lacks credentialSubject.holder.
ResultAsValue ==
  res.op \in {"issue", "verify"} =>
    /\ res.out.k = "ret"
    /\ res.out.ok => res.out.value # Undef /\ res.out.msg = <<>>
    /\ ~res.out.ok => res.out.value = Undef /\ res.out.msg # <<>>

\* verifyCredential has returned a failure after the learned verify threw
ResultAsValueReached ==
  /\ res.op = "verify"
  /\ Len(res.out.calls) = 1 /\ res.out.calls[1].cap = "verify"
  /\ Providers[res.out.calls[1].p].verifyOut.k = "throw"
  /\ res.out.k = "ret" /\ ~res.out.ok
  /\ res.out.msg = <<"Failed to parse JWT payload: ", ErrProvider>>

\* C11 as stated: every key that can be constructed is exactly one of
\* Direct, Signer-backed and Public-only, and canSign() holds exactly for
\* Direct and Signer-backed keys.
ExactlyOneVariant ==
  LET key == bench.key
  IN  /\ Cardinality({g \in {"direct", "signer", "public"} :
                        \/ g = "direct" /\ isDirectKey(key)
                        \/ g = "signer" /\ isSignerKey(key)
                        \/ g = "public" /\ isPublicKey(key)}) = 1
      /\ canSign(key) <=> (isDirectKey(key) \/ isSignerKey(key))

\* the operations of a key, applied to the key in hand
KeyOperations == {"Key.toPublicKey", "Key.sign", "Key.verify"}

\* C12: toPublicKey is a one-way downgrade.  toPublicKey(k) is Public-only,
\* cannot sign and has the id, publicKeyHex and type of k; and no operation
\* applied to a Public-only key leaves a key that can sign.
OneWayDowngrade ==
  [][ /\ res'.op = "Key.toPublicKey" =>
           /\ isPublicKey(bench'.key) /\ ~canSign(bench'.key)
           /\ bench'.key.privateKeyHex = "" /\ ~bench'.key.signer.present
           /\ bench'.key.id = bench.key.id
           /\ bench'.key.publicKeyHex = bench.key.publicKeyHex
           /\ bench'.key.type = bench.key.type
      /\ res'.op \in KeyOperations /\ isPublicKey(bench.key) => ~canSign(bench'.key)
    ]_vars

\* the public-only copy of the signer-backed key has been taken
OneWayDowngradeReached ==
  /\ res.op = "Key.toPublicKey"
  /\ bench.key = KeyCreatePublic("key-2", "pub2", "Secp256k1")

\* C13 as stated: for a Direct key and for a Signer-backed key built on
\* DirectSigner, verify(d, sign(d)) is true for every data string d and
\* verify(d2, sign(d)) is false for every d2 different from d.
SignVerifyRoundTrip ==
  ( /\ res.op = "Key.verify"
    /\ isDirectKey(bench.key) \/ isSignerKey(bench.key)
    /\ bench.verifier = bench.key )
  => (res.out.value = Bool(TRUE) <=> bench.checked = bench.data)

\* the generated id of a credential whose caller gave the types `type`, the
\* unique part being the n-th identifier
GeneratedForm(type, n) ==
  LET named == SelectSeq(CallerTypes(type), LAMBDA t : t # VC)
      app   == IF named = <<>> THEN Lit("Generic") ELSE named[1]
  IN  Str(<<Ch("urn"), Colon, Ch("synet"), Colon>> \o app.a
          \o <<Colon, V("cuid", "", n, <<>>)>>)

\* C14 as stated: over any sequence of successful issueCredential calls no
\* two returned credentials have the same id.
IdsUnique ==
  \A i, j \in DOMAIN ledger : i # j => ledger[i].id # ledger[j].id

\* C14, amended: no two credentials issued without a vcId of the caller have
\* the same id, and such an id is urn:synet:<first non-base type, or
\* 'Generic'>:<a fresh identifier>; a vcId the caller supplies is the id as
\* it stands.
GeneratedIdsUnique ==
  /\ \A i, j \in DOMAIN ledger :
        i # j /\ ~ledger[i].given /\ ~ledger[j].given => ledger[i].id # ledger[j].id
  /\ res.op = "issue" /\ res.out.ok =>
        LET last == ledger[Len(ledger)]
        IN  /\ last.id = Get(cred, "id")
            /\ IF last.given
                 THEN last.id = Get(args.options, "vcId")
                 ELSE \E n \in 1..MaxBatch + 1 :
                        /\ last.id = GeneratedForm(args.type, n)
                        /\ \A i \in 1..Len(ledger) - 1 :
                              ledger[i].id.a[Len(ledger[i].id.a)] # V("cuid", "", n, <<>>)

\* three credentials of the same type were issued without a vcId
GeneratedIdsReached ==
  /\ Len(ledger) = 3
  /\ \A i \in 1..3 : ~ledger[i].given
  /\ res.op = "issue" /\ res.out.ok /\ args.type = TypeOne

\* the i-th argument of the call recorded in r, undefined when not given
Given(r, i) == IF i <= Len(r.opts.a) THEN r.opts.a[i] ELSE Undef

\* C15: teach() returns a contract whose capability names are exactly
\* issueCredential, verifyCredential and validateStructure whatever the engine
\* has learned, and a call of a copied entry returns what the same call made
\* directly on the teaching engine returns, with the capability table the
\* engine has at the time of the call.
TeachExportsOwn ==
  [][ /\ res'.op = "teach" =>
           /\ Len(consumer'.names) = 3
           /\ {consumer'.names[i] : i \in 1..3}
                = {"issueCredential", "verifyCredential", "validateStructure"}
      /\ res'.op = "taught.issueCredential" =>
           /\ res'.out = issueCredential(caps, Given(res', 1), Given(res', 2), Given(res', 3),
                                         Given(res', 4), now, nextId)
           /\ res'.out.ok => cred' = res'.out.value
      /\ res'.op = "taught.verifyCredential" =>
           res'.out = verifyCredential(caps, Given(res', 1), Given(res', 2), now)
      /\ res'.op = "taught.validateStructure" =>
           res'.out = validateStructure(Given(res', 1))
    ]_vars

\* a consumer that copied the entries before the engine had learned anything
\* issues a credential with an id of its choice once the engine has learned
TeachExportsOwnReached ==
  /\ consumer.names # <<>> /\ consumer.since = 0 /\ learned # <<>>
  /\ res.op = "taught.issueCredential" /\ res.out.ok
  /\ Get(cred, "id") = FixedId

\* the candidate has a (non-empty) field f
Present(c, f) == c.t = "obj" /\ Truthy(Get(c, f))

\* the i-th structural requirement on a candidate, in the order of the checks
Meets(c, i) ==
  CASE i = 1 -> Present(c, "@context") /\ Get(c, "@context").t = "arr"
    [] i = 2 -> /\ Present(c, "type") /\ Get(c, "type").t = "arr"
                /\ \E n \in 1..Len(Get(c, "type").a) : Get(c, "type").a[n] = VC
    [] i = 3 -> Present(c, "issuer")
    [] i = 4 -> Present(c, "issuanceDate")
    [] i = 5 -> Present(c, "credentialSubject") /\ Present(Get(c, "credentialSubject"), "holder")
    [] OTHER -> Present(c, "proof")

Reasons ==
  <<"Missing or invalid @context", "Missing or invalid type", "Missing issuer",
    "Missing issuanceDate", "Missing or invalid credentialSubject", "Missing proof">>

\* C16: validateStructure makes no capability call and returns valid = true
\* exactly when the candidate has an array @context, an array type containing
\* 'VerifiableCredential', an issuer, an issuanceDate, a credentialSubject with
\* holder and a proof; otherwise valid = false with the reason of the first
\* requirement, in that order, that the candidate fails (a candidate that is
\* no object at all is an invalid structure).
StructureChecked ==
  res.op = "validate" =>
    LET c       == res.opts
        failing == {i \in 1..6 : ~Meets(c, i)}
        first   == CHOOSE i \in failing : \A j \in failing : i <= j
    IN  /\ res.out.k = "ret" /\ res.out.calls = <<>>
        /\ Get(res.out.value, "valid") = Bool(failing = {})
        /\ failing = {} => ~HasKey(res.out.value, "reason")
        /\ failing # {} =>
             Get(res.out.value, "reason") =
               IF c.t \in {"obj", "arr"} THEN Lit(Reasons[first])
               ELSE Lit("Invalid credential structure")

\* a candidate without issuer, issuanceDate, credentialSubject and proof is
\* reported as 'Missing issuer'
StructureCheckedReached ==
  /\ res.op = "validate"
  /\ res.opts = Obj(<<KV("@context", Arr(DEFAULT_CONTEXT)), KV("type", Arr(<<VC, TypeOne>>))>>)
  /\ Get(res.out.value, "reason") = Lit("Missing issuer")

\* the step of verification a failure comes from
Stage(out) ==
  CASE out.k = "ret" /\ out.ok -> "verified"
    [] out.k = "ret" /\ ~out.ok /\ out.msg[1] = "Unsupported proof type: " -> "proof type"
    [] IsMalformedProof(out) -> "proof parsing"
    [] IsInvalidSignature(out) -> "signature"
    [] IsFieldMismatch(out) -> "field binding"
    [] IsExpiredFailure(out) -> "expiration"
    [] out.k = "ret" /\ ~out.ok /\ out.msg[1] = "Unexpected issuer: " -> "issuer"
    [] OTHER -> "other"

\* the defects of the credential held, by the step that has to find them
DefectAt(step) ==
  LET proof  == Get(cred, "proof")
      jwt    == Get(proof, "jwt")
      issued == Get(Get(orig, "proof"), "jwt")
      claims == JSONparse(base64urlDecode(Segment(issued, 2)).v).v
  IN  CASE step = "proof type" -> Get(proof, "type") # Lit("JwtProof2020")
        [] step = "proof parsing" ->
             \/ jwt.t # "str" \/ Len(Split(jwt, Dot)) # 3
             \/ JSONparse(base64urlDecode(Segment(jwt, 2)).v).k = "throw"
        [] step = "signature" -> jwt # issued
        [] step = "field binding" -> SignedFieldEdited
        [] step = "expiration" ->
             /\ Get(res.opts, "checkExpiration") # Bool(FALSE)
             /\ HasKey(claims, "exp")
             /\ now \div MsPerSecond > Get(claims, "exp").n
        [] OTHER ->
             /\ Truthy(Get(res.opts, "expectedIssuer"))
             /\ Get(res.opts, "expectedIssuer") # Get(claims, "iss")

StepOrder ==
  <<"proof type", "proof parsing", "signature", "field binding", "expiration", "issuer">>

\* the last verifyCredential call, by an engine able to verify, was given an
\* issued credential that still has a proof
DefectsCase ==
  /\ res.op = "verify" /\ CanVerify(caps)
  /\ orig # Undef /\ Get(cred, "proof").t = "obj"

\* C17 as stated: verification stops at the earliest failing step of proof
\* type, proof parsing, signature, field binding, expiration, issuer: the
\* failure returned is that of the first step at which the credential has a
\* defect, and the verify capability is not invoked when that step is the
\* proof type or the proof parsing.
EarliestDefectReported ==
  DefectsCase =>
    LET failing == {i \in 1..Len(StepOrder) : DefectAt(StepOrder[i])}
        first   == CHOOSE i \in failing : \A j \in failing : i <= j
    IN  /\ Stage(res.out) = IF failing = {} THEN "verified" ELSE StepOrder[first]
        /\ Stage(res.out) \in {"proof type", "proof parsing"} => res.out.calls = <<>>

RECURSIVE DeepEqual(_, _)
DeepEqual(x, y) ==
  CASE x.t = "obj" /\ y.t = "obj" ->
         /\ {Keys(x)[i] : i \in 1..Len(x.a)} = {Keys(y)[i] : i \in 1..Len(y.a)}
         /\ \A i \in 1..Len(x.a) : DeepEqual(x.a[i].a[1], Get(y, x.a[i].s))
    [] x.t = "arr" /\ y.t = "arr" ->
         /\ Len(x.a) = Len(y.a)
         /\ \A i \in 1..Len(x.a) : DeepEqual(x.a[i], y.a[i])
    [] OTHER -> x = y

\* the vc claim that was signed at issuance
SignedVc ==
  Get(JSONparse(base64urlDecode(Segment(Get(Get(orig, "proof"), "jwt"), 2)).v).v, "vc")

\* the last verifyCredential call, by an engine able to verify, was given an
\* issued credential with its original proof
BindingCase ==
  /\ res.op = "verify" /\ CanVerify(caps)
  /\ orig # Undef /\ cred.t = "obj"
  /\ Get(cred, "proof") = Get(orig, "proof")

\* C19 as stated: given a valid signature, verifyCredential fails with a field
\* mismatch naming key k exactly when k is the first key of the signed vc
\* claim whose value in the outer credential is not deep-equal to the signed
\* value; a value that is deep-equal, whatever the order of its members, is
\* never reported.
FirstUnequalReported ==
  BindingCase =>
    LET vc      == SignedVc
        unequal == {i \in 1..Len(vc.a) : ~DeepEqual(Get(cred, vc.a[i].s), vc.a[i].a[1])}
        first   == CHOOSE i \in unequal : \A j \in unequal : i <= j
    IN  IF unequal = {} THEN ~IsFieldMismatch(res.out)
        ELSE IsFieldMismatch(res.out) /\ res.out.msg[2] = vc.a[first].s

\* the claims that were signed at issuance
SignedClaims ==
  JSONparse(base64urlDecode(Segment(Get(Get(orig, "proof"), "jwt"), 2)).v).v

\* the last verifyCredential call, by an engine able to verify, was given a
\* credential exactly as it was issued, which passes the signature and the
\* field-binding steps
UnchangedCase ==
  /\ res.op = "verify" /\ CanVerify(caps)
  /\ orig # Undef /\ cred = orig

\* C20 as stated: a credential that passes the signature and field-binding
\* steps fails with Expired exactly when checkExpiration is not false, the
\* signed payload carries an exp claim and the current time in whole epoch
\* seconds is greater than exp, for every exp including 0.
ExpiredExactly ==
  UnchangedCase =>
    (IsExpiredFailure(res.out) <=>
       /\ Get(res.opts, "checkExpiration") # Bool(FALSE)
       /\ HasKey(SignedClaims, "exp")
       /\ now \div MsPerSecond > Get(SignedClaims, "exp").n)

\* the claims in the payload segment of the credential last returned
IssuedClaims ==
  JSONparse(base64urlDecode(Segment(Get(Get(cred, "proof"), "jwt"), 2)).v).v

\* C21: for every successful issuance the decoded payload segment of
\* proof.jwt has vc equal to the issued credential without its proof, jti
\* equal to its id, iss equal to the issuerId and to its issuer.id, nbf equal
\* to its issuanceDate in whole epoch seconds, and exp, the expirationDate in
\* whole epoch seconds, exactly when the credential has an expirationDate.
PayloadClaims ==
  res.op = "issue" /\ res.out.ok =>
    LET claims == IssuedClaims
        ms(d)  == DateGetTime(d).n
    IN  /\ cred = res.out.value
        /\ Get(claims, "vc") = Canon(Without(cred, "proof"))
        /\ Get(claims, "jti") = Get(cred, "id")
        /\ Get(claims, "iss") = args.issuerDid
        /\ Get(claims, "iss") = Get(Get(cred, "issuer"), "id")
        /\ Get(claims, "nbf") = Num(ms(Get(cred, "issuanceDate")) \div MsPerSecond)
        /\ HasKey(claims, "exp") <=> Get(cred, "expirationDate").t # "undef"
        /\ HasKey(claims, "exp") =>
             Get(claims, "exp") = Num(ms(Get(cred, "expirationDate")) \div MsPerSecond)
        /\ {Keys(claims)[i] : i \in 1..Len(claims.a)} \subseteq {"vc", "jti", "nbf", "iss", "exp"}

\* a credential with an expirationDate within a second has been issued at a
\* time within a second
PayloadClaimsReached ==
  /\ res.op = "issue" /\ res.out.ok
  /\ now = MsPerSecond - 1
  /\ Get(IssuedClaims, "exp") = Num(1)
  /\ Get(IssuedClaims, "nbf") = Num(0)

\* C22: fixed proof envelope.  For every successful issuance, whatever the
\* key type of the learned provider and whatever the caller's options, the
\* proof has type 'JwtProof2020', verificationMethod equal to the issuerId and
\* jwt equal to header segment '.' payload segment '.' signature, the header
\* segment encoding {alg: 'EdDSA', typ: 'JWT'} and the signature being the
\* value the sign capability returned.
FixedEnvelope ==
  res.op = "issue" /\ res.out.ok =>
    LET proof  == Get(res.out.value, "proof")
        jwt    == Get(proof, "jwt")
        header == JSONparse(base64urlDecode(Segment(jwt, 1)).v).v
    IN  /\ Keys(proof) = <<"type", "jwt", "verificationMethod">>
        /\ Get(proof, "type") = Lit("JwtProof2020")
        /\ Get(proof, "verificationMethod") = args.issuerDid
        /\ Len(Split(jwt, Dot)) = 3
        /\ header = Obj(<<KV("alg", Lit("EdDSA")), KV("typ", Lit("JWT"))>>)
        /\ Len(res.out.calls) = 1 /\ res.out.calls[1].cap = "sign"
        /\ res.out.calls[1].data = Dotted(Segment(jwt, 1), Segment(jwt, 2))
        /\ Segment(jwt, 3) = res.out.calls[1].out

\* a credential has been issued by an engine taught by a secp256k1 key, the
\* caller asking for another header
FixedEnvelopeReached ==
  /\ res.op = "issue" /\ res.out.ok
  /\ Providers[caps[Plain("sign")]].key.type = "Secp256k1"
  /\ HasKey(args.options, "header")

\* the providers the capability invocations of an outcome went to are those
\* the table c holds
ServedBy(out, c) ==
  \A i \in 1..Len(out.calls) :
    /\ Plain(out.calls[i].cap) \in DOMAIN c
    /\ out.calls[i].p = c[Plain(out.calls[i].cap)]

OnlyLearnWrites ==
  [][ /\ res'.op \in {"issue", "verify"} =>
           caps' = caps /\ log' = log /\ audit' = audit
      /\ res'.op = "verify" => cred' = cred
      /\ caps' # caps => res'.op = "learn"
    ]_vars

\* a verification that ended in a caught exception, and an issuance that
\* failed, by an engine that holds capabilities and a log
OnlyLearnWritesReached ==
  /\ caps # NoCaps /\ log # <<>>
  /\ res.op \in {"issue", "verify"} /\ ~res.out.ok
  /\ res.out.msg[1] \in {"Failed to verify JWT proof: ", "Failed to create JWT proof: "}

\* C25 as stated: each issuance returns a fresh credential that shares no
\* mutable structure with module-level defaults, with the caller's subject or
\* with other credentials returned: after the caller wrote to the subject, or
\* to the @context list of one returned credential, every other credential
\* reads as it was issued, a later issuance without options.context has the
\* declared default @context, and a credential that was not written to
\* verifies as it did.
FreshCredentials ==
  \A i \in 1..Len(heap.cards) :
    LET card == heap.cards[i]
    IN  /\ Get(Deref(heap, i), "credentialSubject") = Get(card.vc, "credentialSubject")
        /\ ~card.pushed => Get(Deref(heap, i), "@context") = Get(card.vc, "@context")
        /\ card.shared => Get(card.vc, "@context") = Arr(DEFAULT_CONTEXT)
        /\ ~card.pushed /\ res.op = "verify" /\ res.opts = Num(i) => res.out.ok

\* the failure of the proof-type step
IsUnsupportedProofType(out) ==
  out.k = "ret" /\ ~out.ok /\ out.msg[1] = "Unsupported proof type: "

\* C26 as stated: a verifyCredential call that reaches the proof-type step
\* (the engine can verify, the credential has a proof) returns the
\* unsupported-proof-type failure exactly when proof.type is not
\* 'JwtProof2020'; a JwtProof2020 proof with a missing or empty jwt is
\* reported as a malformed proof.
UnsupportedIffWrongType ==
  LET proof == Get(cred, "proof")
  IN  res.op = "verify" /\ CanVerify(caps) /\ Truthy(proof) =>
        /\ IsUnsupportedProofType(res.out) <=> Get(proof, "type") # Lit("JwtProof2020")
        /\ Get(proof, "type") = Lit("JwtProof2020") /\ ~Truthy(Get(proof, "jwt"))
             => IsMalformedProof(res.out)

\* JSON.parse(base64urlDecode(segment)) returns
Decodable(segment) ==
  base64urlDecode(segment).k = "ret" /\ JSONparse(base64urlDecode(segment).v).k = "ret"

\* the last verifyCredential call, by an engine able to verify, was given a
\* JwtProof2020 proof whose jwt has three segments
ThreeSegmentsCase ==
  LET proof == Get(cred, "proof")
      jwt   == Get(proof, "jwt")
  IN  /\ res.op = "verify"
      /\ CanVerify(caps)
      /\ proof.t = "obj" /\ Get(proof, "type") = Lit("JwtProof2020")
      /\ jwt.t = "str" /\ Len(Split(jwt, Dot)) = 3

\* C27 as stated: when the header segment or the payload segment of proof.jwt
\* is not base64url-encoded JSON, verifyCredential fails with a malformed-proof
\* failure decided before the signature step (no verify call is made), and a
\* credential is never reported as verified while its header is undecodable.
EverySegmentDecoded ==
  LET jwt == Get(Get(cred, "proof"), "jwt")
  IN  ThreeSegmentsCase =>
        /\ ~Decodable(Segment(jwt, 1)) \/ ~Decodable(Segment(jwt, 2)) =>
             /\ IsMalformedProof(res.out)
             /\ \A i \in 1..Len(res.out.calls) : res.out.calls[i].cap # "verify"
        /\ res.out.ok => Decodable(Segment(jwt, 1))

\* some contract of the list exposes the name
SomeExposes(contracts, name) == \E j \in 1..Len(contracts) : Exposes(contracts[j], name)

\* C28: the capability set only grows.  Over every step of an engine that
\* learns, issues, verifies, validates and teaches, a name of sign, verify and
\* getPublicKey for which can(name) is true stays so, and after learn(contracts)
\* can(name) is true for each of the three names some contract of the list
\* exposes.
CapabilitiesOnlyGrow ==
  [][ /\ \A name \in Recognized : can(caps, name) => can(caps', name)
      /\ Len(learned') > Len(learned) =>
           \A name \in Recognized :
             SomeExposes(learned'[Len(learned')], name) => can(caps', name) ]_vars

\* an engine that knew sign alone has learned verify from a foreign unit, has
\* refused to issue, has validated and taught, and still can sign
CapabilitiesOnlyGrowReached ==
  /\ Len(learned) = 2
  /\ ~SomeExposes(learned[2], "sign") /\ SomeExposes(learned[2], "verify")
  /\ can(caps, "sign") /\ can(caps, "verify") /\ ~can(caps, "getPublicKey")
  /\ res.op = "issue" /\ ~res.out.ok
  /\ consumer.names # <<>>

\* C29 as stated: whatever the learned sign capability returns, a credential
\* returned by issueCredential has a proof.jwt of exactly three non-empty
\* dot-separated segments, an empty or missing signature makes the issuance
\* fail, and no returned credential is refused by verifyCredential as having
\* an invalid JWT format.
ThreeSegmentsIssued ==
  /\ res.op = "issue" /\ res.out.ok =>
       LET jwtParts == Split(Get(Get(res.out.value, "proof"), "jwt"), Dot)
       IN  Len(jwtParts) = 3 /\ \A i \in 1..3 : jwtParts[i] # <<>>
  /\ res.op = "issue" /\ Len(res.out.calls) = 1 /\ ~Truthy(res.out.calls[1].out) =>
       ~res.out.ok
  /\ res.op = "verify" /\ orig # Undef /\ cred = orig =>
       ~(~res.out.ok /\ res.out.msg[1] = "Invalid JWT format")

\* the VerificationResult made of signed data alone
SignedResult ==
  Obj(<< KV("verified", Bool(TRUE)),
         KV("issuer", Get(SignedClaims, "iss")),
         KV("subject", Get(Get(Get(SignedVc, "credentialSubject"), "holder"), "id")),
         KV("issuanceDate", Get(SignedVc, "issuanceDate")),
         KV("expirationDate", Get(SignedVc, "expirationDate")) >>)

\* C30 as stated: the VerificationResult depends only on signed data.  When a
\* credential carrying the proof of an issued credential verifies, the result
\* equals, field by field, the one the issued credential yields on the same
\* engine with the same options, and each reported field is the value inside
\* the signed payload.
ResultFromSignedData ==
  BindingCase /\ res.out.ok =>
    LET other == verifyCredential(caps, orig, res.opts, now)
    IN  /\ other.ok => res.out.value = other.value
        /\ res.out.value = SignedResult

====
